---- MODULE Spec2Model ----
(***************************************************************************)
(* Position risk & PnL engine of the yield-farming backend.                *)
(*                                                                         *)
(* Money is counted in cents, APY and price multipliers in percent,        *)
(* pnl_percent in tenths of a percent, time in hours.  The source          *)
(* computes in binary floating point; here every quotient is a floor       *)
(* division at the stated resolution.                                      *)
(***************************************************************************)
EXTENDS Integers, Sequences, FiniteSets, TLC

VARIABLES
    positions,          \* PositionManager.positions: id -> Position (ids are 1..Len)
    position_history,   \* PositionManager.position_history: references (ids) in append order
    wallet,             \* MockWalletService: balance, transactions, position_pnl
    now,                \* datetime.now(), in hours
    lastOp,             \* the last call made and how it ended
    args,               \* arguments of the last pure-function call
    ret,                \* value returned by the last pure-function call
    backtest,           \* Backtester.run_backtest: the locals and fields of the run in progress
    strategy_manager,   \* StrategyManager: strategies, _running_tasks and the tasks themselves
    rate_limiter,       \* RateLimiter.calls: key -> times of the calls admitted
    paper_wallet        \* PaperWallet: balance, locked_balance, positions

\* the state of the position engine, and all of it
engine == <<positions, position_history, wallet, now, lastOp, args, ret, backtest>>

vars == <<positions, position_history, wallet, now, lastOp, args, ret, backtest,
          strategy_manager, rate_limiter, paper_wallet>>

----------------------------------------------------------------------------
(* Bounds of the model *)

MaxPositions == 1       \* positions ever entered
MaxDays == 1            \* days the clock may advance

(* Program constants *)

CentsPerDollar == 100
HoursPerDay == 24
Scale == 1000           \* fixed-point resolution of rates and multipliers
PercentScale == 10      \* pnl_percent is kept in tenths of a percent
NoneVal == -1           \* Optional field holding None

GasFee == 1             \* 0.01 USD
max_positions == 5
max_position_size == 1000 * CentsPerDollar
max_total_exposure == 5000 * CentsPerDollar
initial_balance == 10000 * CentsPerDollar

----------------------------------------------------------------------------
(* Inputs *)

\* a dict entry: <<>> when the key is absent, <<v>> when present
Get(field, default) == IF field = <<>> THEN default ELSE field[1]

EntryAmounts == {0, 100 * CentsPerDollar, 2000 * CentsPerDollar}

PoolApys == {3650}

Metrics(apy, tvl, price_change, rug_risk) ==
    [apy |-> apy, tvl |-> tvl, price_change |-> price_change, rug_risk |-> rug_risk]

\* the snapshots supplied to update_position: {} (nothing fetched), a healthy
\* pool, a price fall, an APY collapse, a negative price ratio
MetricsSet ==
    {Metrics(<<>>, <<>>, <<>>, <<>>),
     Metrics(<<>>, <<100000>>, <<>>, <<>>),
     Metrics(<<>>, <<100000>>, <<50>>, <<>>),
     Metrics(<<0>>, <<100000>>, <<>>, <<>>),
     Metrics(<<>>, <<100000>>, <<-50>>, <<>>)}

ManualReasons == {"manual"}

----------------------------------------------------------------------------
(* MockWalletService *)

Transaction(type, amount, balance_after) ==
    [type |-> type, amount |-> amount, balance_after |-> balance_after]

_add_transaction(w, type, amount) ==
    [w EXCEPT !.transactions = Append(@, Transaction(type, amount, w.balance))]

\* MockWalletService(initial_balance)
MockWalletService(initial) ==
    _add_transaction([initial_balance |-> initial, balance |-> initial,
                      transactions |-> <<>>, position_pnl |-> <<>>],
                     "deposit", initial)

\* the wallet get_wallet() creates
WalletInit == MockWalletService(initial_balance)

\* returns [ok, w]
wallet_enter_position(w, position_id, amount) ==
    IF amount > w.balance
    THEN [ok |-> FALSE, w |-> w]
    ELSE LET w1 == [w EXCEPT !.balance = @ - amount]
             w2 == _add_transaction(w1, "position_entry", -amount)
         IN [ok |-> TRUE,
             w |-> [w2 EXCEPT !.position_pnl = (position_id :> 0) @@ @]]

wallet_exit_position(w, position_id, amount, pnl) ==
    LET total_return == amount + pnl
        w1 == [w EXCEPT !.balance = @ + total_return]
        w2 == _add_transaction(w1, "position_exit", total_return)
    IN IF position_id \in DOMAIN w2.position_pnl
       THEN [w2 EXCEPT !.position_pnl[position_id] = pnl]
       ELSE w2

\* pay_fee taking the fee without recording it
pay_fee_unrecorded(w, amount) ==
    IF amount > w.balance
    THEN w
    ELSE [w EXCEPT !.balance = @ - amount]

pay_fee(w, amount) ==
    IF amount > w.balance
    THEN w
    ELSE _add_transaction([w EXCEPT !.balance = @ - amount], "fee", -amount)

add_reward(w, amount) ==
    _add_transaction([w EXCEPT !.balance = @ + amount], "reward", amount)

reset(w) == MockWalletService(w.initial_balance)

----------------------------------------------------------------------------
(* Position *)

DailyRate(apy) == (apy * Scale) \div (365 * 100)

RECURSIVE Growth(_, _)
\* (1 + daily_rate) ** days_elapsed, scaled by Scale
Growth(apy, days) ==
    IF days <= 0 THEN Scale
    ELSE (Growth(apy, days - 1) * (Scale + DailyRate(apy))) \div Scale

NewPosition(amount, apy) ==
    [entry_price |-> 100, entry_amount |-> amount, entry_time |-> now,
     entry_apy |-> apy, current_value |-> 0, current_apy |-> apy,
     status |-> "active", exit_price |-> NoneVal, exit_time |-> NoneVal,
     exit_reason |-> "none", pnl_amount |-> 0, pnl_percent |-> 0,
     rewards_earned |-> 0, gas_spent |-> GasFee]

\* calculate_current_value with the gas left out of pnl_amount
calculate_current_value_without_gas(p, current_price, hours_elapsed) ==
    LET price_value == (p.entry_amount * ((current_price * Scale) \div p.entry_price)) \div Scale
        days_elapsed == hours_elapsed \div HoursPerDay
        rewards_value == (p.entry_amount * (Growth(p.current_apy, days_elapsed) - Scale)) \div Scale
        p1 == [p EXCEPT !.current_value = price_value + rewards_value,
                        !.rewards_earned = rewards_value]
        p2 == [p1 EXCEPT !.pnl_amount = p1.current_value - p1.entry_amount]
    IN IF p.entry_amount = 0
       THEN [p |-> p2, raised |-> TRUE]
       ELSE [p |-> [p2 EXCEPT !.pnl_percent = (p2.pnl_amount * 100 * PercentScale) \div p2.entry_amount],
             raised |-> FALSE]

\* returns [p, raised]: the position as the call leaves it, and whether the
\* division by entry_amount raised ZeroDivisionError
calculate_current_value(p, current_price, hours_elapsed) ==
    LET price_value == (p.entry_amount * ((current_price * Scale) \div p.entry_price)) \div Scale
        days_elapsed == hours_elapsed \div HoursPerDay
        rewards_value == (p.entry_amount * (Growth(p.current_apy, days_elapsed) - Scale)) \div Scale
        p1 == [p EXCEPT !.current_value = price_value + rewards_value,
                        !.rewards_earned = rewards_value]
        p2 == [p1 EXCEPT !.pnl_amount = p1.current_value - p1.entry_amount - p1.gas_spent]
    IN IF p.entry_amount = 0
       THEN [p |-> p2, raised |-> TRUE]
       ELSE [p |-> [p2 EXCEPT !.pnl_percent = (p2.pnl_amount * 100 * PercentScale) \div p2.entry_amount],
             raised |-> FALSE]

\* returns [exit, reason]
should_exit(p, current_metrics) ==
    IF p.pnl_percent <= -10 * PercentScale THEN [exit |-> TRUE, reason |-> "stop_loss"]
    ELSE IF p.pnl_percent >= 50 * PercentScale THEN [exit |-> TRUE, reason |-> "take_profit"]
    ELSE IF 2 * Get(current_metrics.apy, p.current_apy) < p.entry_apy
         THEN [exit |-> TRUE, reason |-> "apy_drop"]
    ELSE IF Get(current_metrics.tvl, 0) < 10000
         THEN [exit |-> TRUE, reason |-> "low_liquidity"]
    ELSE IF Get(current_metrics.rug_risk, FALSE)
         THEN [exit |-> TRUE, reason |-> "rug_risk"]
    ELSE [exit |-> FALSE, reason |-> "none"]

----------------------------------------------------------------------------
(* PositionManager *)

\* the manager's mutable state, as one value
PM == [positions |-> positions, position_history |-> position_history, wallet |-> wallet]

get_active_positions(ps) == {i \in DOMAIN ps : ps[i].status = "active"}

RECURSIVE SumEntry(_, _)
SumEntry(ps, ids) ==
    IF ids = {} THEN 0
    ELSE LET i == CHOOSE x \in ids : TRUE
         IN ps[i].entry_amount + SumEntry(ps, ids \ {i})

\* the check of can_enter_position with the exposure comparison turned round
CanEnterCheck_exposure_inverted(amount, wallet_balance, active_count, total_active) ==
    IF amount > wallet_balance THEN [ok |-> FALSE, reason |-> "insufficient_balance"]
    ELSE IF active_count >= max_positions THEN [ok |-> FALSE, reason |-> "max_positions"]
    ELSE IF amount > max_position_size THEN [ok |-> FALSE, reason |-> "max_position_size"]
    ELSE IF total_active + amount < max_total_exposure
         THEN [ok |-> FALSE, reason |-> "max_total_exposure"]
    ELSE [ok |-> TRUE, reason |-> "OK"]

\* the check of can_enter_position without the limit on the size of a position
CanEnterCheck_without_size_limit(amount, wallet_balance, active_count, total_active) ==
    IF amount > wallet_balance THEN [ok |-> FALSE, reason |-> "insufficient_balance"]
    ELSE IF active_count >= max_positions THEN [ok |-> FALSE, reason |-> "max_positions"]
    ELSE IF total_active + amount > max_total_exposure
         THEN [ok |-> FALSE, reason |-> "max_total_exposure"]
    ELSE [ok |-> TRUE, reason |-> "OK"]

\* returns [ok, reason]
CanEnterCheck(amount, wallet_balance, active_count, total_active) ==
    IF amount > wallet_balance THEN [ok |-> FALSE, reason |-> "insufficient_balance"]
    ELSE IF active_count >= max_positions THEN [ok |-> FALSE, reason |-> "max_positions"]
    ELSE IF amount > max_position_size THEN [ok |-> FALSE, reason |-> "max_position_size"]
    ELSE IF total_active + amount > max_total_exposure
         THEN [ok |-> FALSE, reason |-> "max_total_exposure"]
    ELSE [ok |-> TRUE, reason |-> "OK"]

can_enter_position(s, amount) ==
    LET active == get_active_positions(s.positions)
    IN CanEnterCheck(amount, s.wallet.balance, Cardinality(active),
                     SumEntry(s.positions, active))

\* returns [s, result, id]
enter_position(s, apy, amount) ==
    LET chk == can_enter_position(s, amount)
        id == Len(s.positions) + 1
        we == wallet_enter_position(s.wallet, id, amount)
    IN IF ~chk.ok THEN [s |-> s, result |-> chk.reason, id |-> 0]
       ELSE IF ~we.ok THEN [s |-> s, result |-> "wallet_failed", id |-> 0]
       ELSE [s |-> [s EXCEPT !.wallet = pay_fee(we.w, GasFee),
                             !.positions = Append(@, NewPosition(amount, apy))],
             result |-> "ok", id |-> id]

\* exit_position past its guards: the exit fields, the final P&L, the refund,
\* the exit gas fee and the history record.  returns [s, result]
close_position(s, position_id, reason) ==
    LET p == s.positions[position_id]
        p1 == [p EXCEPT !.status = "exited", !.exit_time = now, !.exit_price = 100,
                        !.exit_reason = reason, !.gas_spent = @ + GasFee]
        c == calculate_current_value(p1, p1.exit_price, p1.exit_time - p1.entry_time)
        s1 == [s EXCEPT !.positions[position_id] = c.p]
    IN IF c.raised THEN [s |-> s1, result |-> "ZeroDivisionError"]
       ELSE [s |-> [s1 EXCEPT
                      !.wallet = pay_fee(wallet_exit_position(@, position_id,
                                             c.p.entry_amount, c.p.pnl_amount), GasFee),
                      !.position_history = Append(@, position_id)],
             result |-> "ok"]

\* exit_position without its check that the position is still active
exit_position_unguarded(s, position_id, reason) ==
    IF position_id \notin DOMAIN s.positions THEN [s |-> s, result |-> "not_found"]
    ELSE close_position(s, position_id, reason)

\* returns [s, result]
exit_position(s, position_id, reason) ==
    IF position_id \notin DOMAIN s.positions THEN [s |-> s, result |-> "not_found"]
    ELSE IF s.positions[position_id].status # "active" THEN [s |-> s, result |-> "not_active"]
    ELSE close_position(s, position_id, reason)

\* returns [s, result]
update_position(s, position_id, current_metrics) ==
    IF position_id \notin DOMAIN s.positions THEN [s |-> s, result |-> "not_found"]
    ELSE LET p == s.positions[position_id]
             hours_elapsed == now - p.entry_time
             apy1 == Get(current_metrics.apy, p.current_apy)
             days_elapsed == hours_elapsed \div HoursPerDay
             earned_multiplier == Scale + DailyRate(apy1) * days_elapsed
             price_multiplier == Get(current_metrics.price_change, 100)
             p1 == [p EXCEPT !.current_apy = apy1,
                             !.current_value = (((p.entry_amount * earned_multiplier) \div Scale)
                                                 * price_multiplier) \div 100]
             c == calculate_current_value(p1, price_multiplier, hours_elapsed)
             s1 == [s EXCEPT !.positions[position_id] = c.p]
             se == should_exit(c.p, current_metrics)
         IN IF c.raised THEN [s |-> s1, result |-> "ZeroDivisionError"]
            ELSE IF se.exit /\ c.p.status = "active"
                 THEN exit_position(s1, position_id, se.reason)
            ELSE [s |-> s1, result |-> "ok"]

\* returns the counts and totals of PositionSummary
get_position_summary(s) ==
    LET active == get_active_positions(s.positions)
        all_positions == [i \in 1..(Len(s.positions) + Len(s.position_history)) |->
                             IF i <= Len(s.positions) THEN i
                             ELSE s.position_history[i - Len(s.positions)]]
        RECURSIVE Invested(_)
        Invested(n) == IF n = 0 THEN 0
                       ELSE s.positions[all_positions[n]].entry_amount + Invested(n - 1)
    IN [total_positions |-> Len(all_positions),
        active_positions |-> Cardinality(active),
        total_invested |-> Invested(Len(all_positions))]

----------------------------------------------------------------------------
(* Specification of the position manager and its wallet *)

NoCall == [fn |-> "none"]

\* no backtest has been started
NoRun == [phase |-> "idle"]

\* an object that has not been constructed
NotBuilt == [built |-> FALSE]

Install(s) ==
    /\ positions' = s.positions
    /\ position_history' = s.position_history
    /\ wallet' = s.wallet

Init ==
    /\ positions = <<>>
    /\ position_history = <<>>
    /\ wallet = WalletInit
    /\ now = 0
    /\ lastOp = [op |-> "init", id |-> 0, pre |-> "none", result |-> "ok"]
    /\ args = NoCall
    /\ ret = NoCall
    /\ backtest = NoRun
    /\ strategy_manager = NotBuilt
    /\ rate_limiter = NotBuilt
    /\ paper_wallet = NotBuilt

\* the ids a caller may name; one not handed out yet is unknown to the manager
KnownIds == 1..MaxPositions

StatusOf(id) == IF id \in DOMAIN positions THEN positions[id].status ELSE "none"

EnterPosition ==
    \E apy \in PoolApys, amount \in EntryAmounts :
        /\ Len(positions) < MaxPositions
        /\ LET r == enter_position(PM, apy, amount)
           IN /\ Install(r.s)
              /\ lastOp' = [op |-> "enter", id |-> r.id, pre |-> "none", result |-> r.result]
        /\ UNCHANGED <<now, args, ret, backtest, strategy_manager, rate_limiter, paper_wallet>>

UpdatePosition ==
    \E id \in KnownIds, m \in MetricsSet :
        /\ LET r == update_position(PM, id, m)
           IN /\ Install(r.s)
              /\ lastOp' = [op |-> "update", id |-> id, pre |-> StatusOf(id), result |-> r.result]
        /\ UNCHANGED <<now, args, ret, backtest, strategy_manager, rate_limiter, paper_wallet>>

ExitPosition ==
    \E id \in KnownIds, reason \in ManualReasons :
        /\ LET r == exit_position(PM, id, reason)
           IN /\ Install(r.s)
              /\ lastOp' = [op |-> "exit", id |-> id, pre |-> StatusOf(id), result |-> r.result]
        /\ UNCHANGED <<now, args, ret, backtest, strategy_manager, rate_limiter, paper_wallet>>

Tick ==
    /\ now + HoursPerDay <= MaxDays * HoursPerDay
    /\ now' = now + HoursPerDay
    /\ lastOp' = [op |-> "tick", id |-> 0, pre |-> "none", result |-> "ok"]
    /\ UNCHANGED <<positions, position_history, wallet, args, ret, backtest, strategy_manager, rate_limiter, paper_wallet>>

Next == EnterPosition \/ UpdatePosition \/ ExitPosition \/ Tick

Spec == Init /\ [][Next]_vars

----------------------------------------------------------------------------
(* TradingStrategy and its presets *)

ExitRules(stop_loss, take_profit, risk_increase, il, hours) ==
    [stop_loss_percent |-> stop_loss, take_profit_percent |-> take_profit,
     max_risk_score_increase |-> risk_increase, max_il_percent |-> il,
     max_position_hours |-> hours,
     rug_pull_tvl_drop_percent |-> -50, rug_pull_volume_drop_percent |-> -70]

\* sizes in dollars; max_portfolio_percent, risk_multiplier and kelly_fraction
\* in hundredths
PositionSizing(method, fixed_size, max_size, portfolio_percent, risk_multiplier) ==
    [sizing_method |-> method, fixed_size_usd |-> fixed_size,
     max_position_size_usd |-> max_size, max_portfolio_percent |-> portfolio_percent,
     risk_multiplier |-> risk_multiplier, kelly_fraction |-> 25,
     min_position_size_usd |-> 50]

\* min_cash_reserve_percent in hundredths
RiskLimits(total, per_protocol, reserve) ==
    [max_total_positions |-> total, max_positions_per_protocol |-> per_protocol,
     max_positions_per_token |-> 2, min_cash_reserve_percent |-> reserve]

\* APYs in percent, TVL in dollars
EntryRules(max_risk_score, min_apy, max_apy, min_tvl, min_sustainability_score) ==
    [max_risk_score |-> max_risk_score, min_apy |-> min_apy, max_apy |-> max_apy,
     min_tvl |-> min_tvl, min_sustainability_score |-> min_sustainability_score]

DefaultEntryRules == EntryRules(60, 100, 10000, 50000, 3)

\* blocked_tokens: {} stands for None as well as for the empty list
TradingStrategy(type, blocked, entry_rules, exit_rules, position_sizing, risk_limits) ==
    [strategy_type |-> type, blocked_tokens |-> blocked, entry_rules |-> entry_rules,
     exit_rules |-> exit_rules, position_sizing |-> position_sizing,
     risk_limits |-> risk_limits]

CONSERVATIVE_STRATEGY ==
    TradingStrategy("conservative", {}, EntryRules(40, 100, 2000, 500000, 7),
                    ExitRules(-5, 15, 10, -8, 336),
                    PositionSizing("portfolio_percent", 100, 1000, 5, 80),
                    RiskLimits(5, 2, 40))

BALANCED_STRATEGY ==
    TradingStrategy("balanced", {}, EntryRules(60, 300, 5000, 100000, 5),
                    ExitRules(-10, 30, 15, -12, 168),
                    PositionSizing("risk_based", 200, 1000, 10, 100),
                    RiskLimits(8, 3, 25))

DEGEN_STRATEGY ==
    TradingStrategy("degen", {}, EntryRules(80, 1000, 50000, 50000, 2),
                    ExitRules(-20, 100, 20, -20, 72),
                    PositionSizing("fixed", 100, 1000, 20, 150),
                    RiskLimits(15, 5, 15))

\* caller-supplied strategies: one whose IL limit the placeholder IL value
\* reaches and which blocks a token, one sized by the Kelly method, one whose
\* fixed size is above its maximum size
CUSTOM_STRATEGY ==
    TradingStrategy("custom", {"BONK"}, DefaultEntryRules,
                    ExitRules(-10, 30, 20, -5, 168),
                    PositionSizing("fixed", 100, 1000, 10, 100),
                    RiskLimits(10, 3, 20))

KELLY_STRATEGY ==
    TradingStrategy("custom", {}, DefaultEntryRules,
                    ExitRules(-10, 30, 20, -12, 168),
                    PositionSizing("kelly", 100, 1000, 10, 100),
                    RiskLimits(10, 3, 20))

LARGE_FIXED_STRATEGY ==
    TradingStrategy("custom", {}, DefaultEntryRules,
                    ExitRules(-10, 30, 20, -12, 168),
                    PositionSizing("fixed", 5000, 1000, 10, 100),
                    RiskLimits(10, 3, 20))

Strategies == {CONSERVATIVE_STRATEGY, BALANCED_STRATEGY, DEGEN_STRATEGY, CUSTOM_STRATEGY}

SizingStrategies ==
    {CONSERVATIVE_STRATEGY, BALANCED_STRATEGY, DEGEN_STRATEGY, KELLY_STRATEGY,
     LARGE_FIXED_STRATEGY}

----------------------------------------------------------------------------
(* TradingBot: exit rules *)

\* what should_exit_position reads: the position handed over by
\* position_manager.get_active_positions, the pool row fetched by
\* _get_pool_data (<<>> when there is none), the number of active positions and
\* the answer of _has_better_opportunity
BotExitInputs ==
    [fn : {"bot"},
     strategy : Strategies,
     pnl_percent : {-25, 0, 120},
     hours_held : {1, 400},
     entry_tvl : {<<>>, <<200000>>},
     entry_volume : {<<50000>>},
     pool : {<<>>} \cup {<<r>> : r \in [overall_risk_score : {0, 40, 60},
                                       tvl : {80000, 200000},
                                       volume_24h : {10000, 50000}]},
     active_count : {1, 15},
     better : BOOLEAN]

_calculate_il_percent == -5

_get_current_risk_score(a) ==
    IF a.pool = <<>> THEN 0 ELSE a.pool[1].overall_risk_score

BotStopLoss(a) == a.pnl_percent <= a.strategy.exit_rules.stop_loss_percent
BotTakeProfit(a) == a.pnl_percent >= a.strategy.exit_rules.take_profit_percent
BotTimeLimit(a) == a.hours_held >= a.strategy.exit_rules.max_position_hours
BotIlThreshold(a) == _calculate_il_percent <= a.strategy.exit_rules.max_il_percent

\* `if current_risk and position.entry_risk_score:` stops at current_risk when
\* it is None or 0; otherwise it looks up entry_risk_score, a field the
\* Position model does not declare, and the lookup raises AttributeError
BotRiskLookupRaises(a) == _get_current_risk_score(a) # 0

\* the TVL test of _detect_rug_pull alone
RugTvlDrop(a) ==
    /\ a.pool # <<>>
    /\ LET current_tvl == a.pool[1].tvl
           entry_tvl == Get(a.entry_tvl, current_tvl)
       IN /\ entry_tvl > 0
          /\ (current_tvl - entry_tvl) * 100
                 <= a.strategy.exit_rules.rug_pull_tvl_drop_percent * entry_tvl

\* the volume test of _detect_rug_pull alone
RugVolumeDrop(a) ==
    /\ a.pool # <<>>
    /\ LET current_volume == a.pool[1].volume_24h
           entry_volume == Get(a.entry_volume, current_volume)
       IN /\ entry_volume > 0
          /\ (current_volume - entry_volume) * 100
                 <= a.strategy.exit_rules.rug_pull_volume_drop_percent * entry_volume

_detect_rug_pull(a) == RugTvlDrop(a) \/ RugVolumeDrop(a)

BotBetterOpportunity(a) ==
    a.active_count >= a.strategy.risk_limits.max_total_positions /\ a.better

should_exit_position(a) ==
    IF BotStopLoss(a) THEN "stop_loss"
    ELSE IF BotTakeProfit(a) THEN "take_profit"
    ELSE IF BotTimeLimit(a) THEN "time_limit"
    ELSE IF BotIlThreshold(a) THEN "il_threshold"
    ELSE IF BotRiskLookupRaises(a) THEN "AttributeError"
    ELSE IF _detect_rug_pull(a) THEN "rug_detection"
    ELSE IF BotBetterOpportunity(a) THEN "better_opportunity"
    ELSE "none"

----------------------------------------------------------------------------
(* Backtester: exit rules *)

\* what _check_exit_conditions reads: the position dict, the value returned by
\* _calculate_position_value, and the historical frame ("empty": no rows at
\* all, "no_row": none for this pool up to current_time, "row": a latest row)
BacktestExitInputs ==
    [fn : {"backtest"},
     strategy : Strategies,
     entry_value : {1000},
     current_value : {700, 1000, 2500},
     hours_held : {1, 400},
     entry_risk : {30},
     data : {"empty", "no_row", "row"},
     risk_score : {30, 60}]

BacktestPnlPercent(a) == ((a.current_value - a.entry_value) * 100) \div a.entry_value

BtTimeLimit(a) == a.hours_held >= a.strategy.exit_rules.max_position_hours
BtStopLoss(a) == BacktestPnlPercent(a) <= a.strategy.exit_rules.stop_loss_percent
BtTakeProfit(a) == BacktestPnlPercent(a) >= a.strategy.exit_rules.take_profit_percent
BtRiskIncrease(a) ==
    /\ a.data = "row"
    /\ a.risk_score - a.entry_risk > a.strategy.exit_rules.max_risk_score_increase

_check_exit_conditions(a) ==
    IF BtTimeLimit(a) THEN "time_limit"
    ELSE IF BtStopLoss(a) THEN "stop_loss"
    ELSE IF BtTakeProfit(a) THEN "take_profit"
    ELSE IF a.data = "no_row" THEN "IndexError"
    ELSE IF BtRiskIncrease(a) THEN "risk_increase"
    ELSE "none"

----------------------------------------------------------------------------
(* Position.should_exit as a function of the position and the snapshot *)

PositionExitInputs ==
    [fn : {"position"},
     pnl_percent : {-25 * PercentScale, 0, 60 * PercentScale},
     entry_apy : {3650},
     current_apy : {3650},
     metrics : [apy : {<<>>, <<0>>}, tvl : {<<>>, <<5000>>, <<100000>>},
                price_change : {<<>>}, rug_risk : {<<>>, <<FALSE>>, <<TRUE>>}]]

PositionOf(a) ==
    [NewPosition(100 * CentsPerDollar, a.entry_apy) EXCEPT
        !.pnl_percent = a.pnl_percent, !.current_apy = a.current_apy]

PosStopLoss(a) == a.pnl_percent <= -10 * PercentScale
PosTakeProfit(a) == a.pnl_percent >= 50 * PercentScale
PosLowLiquidity(a) == Get(a.metrics.tvl, 0) < 10000
PosRugRisk(a) == Get(a.metrics.rug_risk, FALSE)

----------------------------------------------------------------------------
(* Specification of the exit-rule evaluators: the inputs are drawn at the    *)
(* start and each evaluator is applied to them                              *)

InitExit ==
    /\ positions = <<>>
    /\ position_history = <<>>
    /\ wallet = WalletInit
    /\ now = 0
    /\ lastOp = [op |-> "init", id |-> 0, pre |-> "none", result |-> "ok"]
    /\ args \in BotExitInputs \cup BacktestExitInputs \cup PositionExitInputs
    /\ ret = NoCall
    /\ backtest = NoRun
    /\ strategy_manager = NotBuilt
    /\ rate_limiter = NotBuilt
    /\ paper_wallet = NotBuilt

BotShouldExit ==
    /\ args.fn = "bot" /\ ret = NoCall
    /\ ret' = [fn |-> "bot", reason |-> should_exit_position(args)]
    /\ UNCHANGED <<positions, position_history, wallet, now, lastOp, args, backtest, strategy_manager, rate_limiter, paper_wallet>>

BacktestCheckExit ==
    /\ args.fn = "backtest" /\ ret = NoCall
    /\ ret' = [fn |-> "backtest", reason |-> _check_exit_conditions(args)]
    /\ UNCHANGED <<positions, position_history, wallet, now, lastOp, args, backtest, strategy_manager, rate_limiter, paper_wallet>>

PositionShouldExit ==
    /\ args.fn = "position" /\ ret = NoCall
    /\ ret' = [fn |-> "position", reason |-> should_exit(PositionOf(args), args.metrics).reason]
    /\ UNCHANGED <<positions, position_history, wallet, now, lastOp, args, backtest, strategy_manager, rate_limiter, paper_wallet>>

NextExit == BotShouldExit \/ BacktestCheckExit \/ PositionShouldExit

SpecExit == InitExit /\ [][NextExit]_vars

----------------------------------------------------------------------------
(* Entry checks of PositionManager and TradingBot *)

MaxPerPool == 2         \* active positions held in one kind of pool

\* arguments of the check of can_enter_position: the amount asked for, the
\* wallet balance, and the number and summed entry_amount of the ACTIVE
\* positions, each varied on its own
PmEntryInputs ==
    [fn : {"pm_can_enter"},
     amount : {0, 500 * CentsPerDollar, 1000 * CentsPerDollar, 1500 * CentsPerDollar},
     wallet_balance : {400 * CentsPerDollar, 1200 * CentsPerDollar, initial_balance},
     active_count : {0, 4, 5},
     total_active : {0, 4000 * CentsPerDollar, 4500 * CentsPerDollar, 5000 * CentsPerDollar}]

\* pool_data of the active positions: protocol (<<>> when the key is absent)
\* and the symbols that make up the token_symbols string
ActivePoolKinds ==
    {[protocol |-> <<"raydium">>, token_symbols |-> <<"SOL", "USDC">>],
     [protocol |-> <<"raydium">>, token_symbols |-> <<"MSOL", "USDC">>],
     [protocol |-> <<"orca">>, token_symbols |-> <<"BONK", "SOL">>]}

\* candidate pools; "" is the default of a missing token symbol
CandidatePools ==
    {[protocol |-> <<"raydium">>, token_a_symbol |-> "SOL", token_b_symbol |-> "USDC"],
     [protocol |-> <<"orca">>, token_a_symbol |-> "BONK", token_b_symbol |-> "JUP"],
     [protocol |-> <<"meteora">>, token_a_symbol |-> "JUP", token_b_symbol |-> ""],
     [protocol |-> <<>>, token_a_symbol |-> "", token_b_symbol |-> ""]}

\* what _can_enter_position reads: the strategy, the candidate pool and how
\* many active positions there are of each kind
BotEntryInputs ==
    [fn : {"bot_can_enter"},
     strategy : Strategies,
     pool : CandidatePools,
     active : [ActivePoolKinds -> 0..MaxPerPool]]

\* `token in s` on strings, for the symbols above
IsSubstring(token, symbol) == token = symbol \/ (token = "SOL" /\ symbol = "MSOL")

InTokenSymbols(token, token_symbols) ==
    \E i \in DOMAIN token_symbols : IsSubstring(token, token_symbols[i])

RECURSIVE CountActive(_, _)
CountActive(active, kinds) ==
    IF kinds = {} THEN 0
    ELSE LET k == CHOOSE x \in kinds : TRUE
         IN active[k] + CountActive(active, kinds \ {k})

PoolTokens(a) == <<a.pool.token_a_symbol, a.pool.token_b_symbol>>

BotTotalFull(a) ==
    CountActive(a.active, ActivePoolKinds) >= a.strategy.risk_limits.max_total_positions

BotProtocolFull(a) ==
    LET protocol == Get(a.pool.protocol, "unknown")
        protocol_count == CountActive(a.active,
                              {k \in ActivePoolKinds : k.protocol = <<protocol>>})
    IN protocol_count >= a.strategy.risk_limits.max_positions_per_protocol

BotTokenFull(a) ==
    \E i \in 1..2 :
        LET token == PoolTokens(a)[i]
            token_count == CountActive(a.active,
                               {k \in ActivePoolKinds : InTokenSymbols(token, k.token_symbols)})
        IN token # "" /\ token_count >= a.strategy.risk_limits.max_positions_per_token

BotTokenBlocked(a) ==
    /\ a.strategy.blocked_tokens # {}
    /\ \E i \in 1..2 : PoolTokens(a)[i] \in a.strategy.blocked_tokens

\* returns a bare boolean
_can_enter_position(a) ==
    IF BotTotalFull(a) THEN FALSE
    ELSE IF BotProtocolFull(a) THEN FALSE
    ELSE IF BotTokenFull(a) THEN FALSE
    ELSE IF BotTokenBlocked(a) THEN FALSE
    ELSE TRUE

InitEntry ==
    /\ positions = <<>>
    /\ position_history = <<>>
    /\ wallet = WalletInit
    /\ now = 0
    /\ lastOp = [op |-> "init", id |-> 0, pre |-> "none", result |-> "ok"]
    /\ args \in PmEntryInputs \cup BotEntryInputs
    /\ ret = NoCall
    /\ backtest = NoRun
    /\ strategy_manager = NotBuilt
    /\ rate_limiter = NotBuilt
    /\ paper_wallet = NotBuilt

PmCanEnter ==
    /\ args.fn = "pm_can_enter" /\ ret = NoCall
    /\ LET r == CanEnterCheck(args.amount, args.wallet_balance, args.active_count,
                              args.total_active)
       IN ret' = [fn |-> "pm_can_enter", ok |-> r.ok, reason |-> r.reason]
    /\ UNCHANGED <<positions, position_history, wallet, now, lastOp, args, backtest, strategy_manager, rate_limiter, paper_wallet>>

BotCanEnter ==
    /\ args.fn = "bot_can_enter" /\ ret = NoCall
    /\ ret' = [fn |-> "bot_can_enter", ok |-> _can_enter_position(args)]
    /\ UNCHANGED <<positions, position_history, wallet, now, lastOp, args, backtest, strategy_manager, rate_limiter, paper_wallet>>

NextEntry == PmCanEnter \/ BotCanEnter

SpecEntry == InitEntry /\ [][NextEntry]_vars

----------------------------------------------------------------------------
(* TradingBot: position sizing.  Amounts in this section are in thousandths *)
(* of a dollar, so that the rounding to cents at the end is visible         *)

MillsPerDollar == 1000

\* floor(x * n / d) without forming x * n
MulDiv(x, n, d) == (x \div d) * n + ((x % d) * n) \div d

Max(x, y) == IF x >= y THEN x ELSE y
Min(x, y) == IF x <= y THEN x ELSE y

\* round(x, 2): to the nearest cent, a tie going to the even cent
Round2(x) ==
    LET q == x \div 10
        r == x % 10
    IN IF r < 5 THEN q * 10
       ELSE IF r > 5 THEN (q + 1) * 10
       ELSE IF q % 2 = 0 THEN q * 10 ELSE (q + 1) * 10

TrackerInit == [total_trades |-> 0, winning_trades |-> 0, best_trade |-> 0, worst_trade |-> 0]

\* what _calculate_position_size reads: the strategy, the wallet balance, the
\* summed current_value of the active positions, the pool's risk score and
\* the performance tracker, which stays as __init__ left it
SizeInputs ==
    [fn : {"size"},
     strategy : SizingStrategies,
     wallet_balance : {0, 100 * MillsPerDollar, 999990, 10000 * MillsPerDollar},
     active_value : {0, 60004, 9000 * MillsPerDollar},
     overall_risk_score : {0, 30, 100},
     tracker : {TrackerInit}]

\* returns the rate as [num, den]
get_win_rate(t) ==
    IF t.total_trades = 0 THEN [num |-> 1, den |-> 2]
    ELSE [num |-> t.winning_trades, den |-> t.total_trades]

get_average_win(t) ==
    IF t.winning_trades = 0 THEN 100 * MillsPerDollar
    ELSE (t.best_trade * 6) \div 10

get_average_loss(t) ==
    IF t.total_trades - t.winning_trades = 0 THEN -50 * MillsPerDollar
    ELSE -(((-t.worst_trade) * 6) \div 10)

_get_available_capital(a) ==
    LET min_reserve == MulDiv(a.wallet_balance,
                              a.strategy.risk_limits.min_cash_reserve_percent, 100)
        available == a.wallet_balance - a.active_value - min_reserve
    IN Max(0, available)

FixedSize(a) == a.strategy.position_sizing.fixed_size_usd * MillsPerDollar

\* kelly_percent, in thousandths, bounded between 0 and 1
KellyPercent(t) ==
    LET win_rate == get_win_rate(t)
        avg_win == get_average_win(t)
        avg_loss == -get_average_loss(t)
        edge == win_rate.num * avg_win - (win_rate.den - win_rate.num) * avg_loss
    IN Max(0, Min((edge * Scale) \div (win_rate.den * avg_win), Scale))

\* the size chosen by the sizing method, before any limit
MethodSize(a) ==
    LET ps == a.strategy.position_sizing
    IN CASE ps.sizing_method = "fixed" -> FixedSize(a)
         [] ps.sizing_method = "portfolio_percent" ->
                MulDiv(a.wallet_balance, ps.max_portfolio_percent, 100)
         [] ps.sizing_method = "risk_based" ->
                MulDiv(MulDiv(FixedSize(a), 100 - a.overall_risk_score, 100),
                       ps.risk_multiplier, 100)
         [] ps.sizing_method = "kelly" ->
                IF -get_average_loss(a.tracker) > 0
                THEN MulDiv(MulDiv(a.wallet_balance, KellyPercent(a.tracker), Scale),
                            ps.kelly_fraction, 100)
                ELSE FixedSize(a)
         [] OTHER -> FixedSize(a)

\* the limits applied to a size: raised to the minimum, cut to the maximum
ApplyLimits(a, size) ==
    LET ps == a.strategy.position_sizing
    IN Min(Max(size, ps.min_position_size_usd * MillsPerDollar),
           ps.max_position_size_usd * MillsPerDollar)

\* _calculate_position_size without the cap by the available capital
_calculate_position_size_uncapped(a) == Round2(ApplyLimits(a, MethodSize(a)))

_calculate_position_size(a) ==
    Round2(Min(ApplyLimits(a, MethodSize(a)), _get_available_capital(a)))

InitSize ==
    /\ positions = <<>>
    /\ position_history = <<>>
    /\ wallet = WalletInit
    /\ now = 0
    /\ lastOp = [op |-> "init", id |-> 0, pre |-> "none", result |-> "ok"]
    /\ args \in SizeInputs
    /\ ret = NoCall
    /\ backtest = NoRun
    /\ strategy_manager = NotBuilt
    /\ rate_limiter = NotBuilt
    /\ paper_wallet = NotBuilt

\* TradingBot.exit_position: its first assignment reads PositionStatus.CLOSED,
\* a member the enum does not have, so the call raises AttributeError before
\* the performance tracker is touched; nothing else writes the tracker
BotExitPosition ==
    /\ args.fn = "size"
    /\ lastOp' = [op |-> "bot_exit", id |-> 0, pre |-> "active", result |-> "AttributeError"]
    /\ UNCHANGED <<positions, position_history, wallet, now, args, ret, backtest, strategy_manager, rate_limiter, paper_wallet>>

CalculatePositionSize ==
    /\ args.fn = "size" /\ ret = NoCall
    /\ ret' = [fn |-> "size", size |-> _calculate_position_size(args)]
    /\ UNCHANGED <<positions, position_history, wallet, now, lastOp, args, backtest, strategy_manager, rate_limiter, paper_wallet>>

NextSize == BotExitPosition \/ CalculatePositionSize

SpecSize == InitSize /\ [][NextSize]_vars

----------------------------------------------------------------------------
(* Backtester._calculate_metrics.  A float is a record: a quotient          *)
(* [kind |-> "finite", num, den], or [kind |-> k] with k one of "inf",       *)
(* "-inf", "nan"; a Sharpe, Sortino or Calmar ratio that is an ordinary       *)
(* number other than the sentinel 0 is [kind |-> "finite"] without its       *)
(* magnitude                                                                  *)

MaxCurve == 3           \* samples of the equity curves handed to the metrics

NonFinite == {"inf", "-inf", "nan"}

Quotient(x, y) == [kind |-> "finite", num |-> x, den |-> y]
Special(kind) == [kind |-> kind]
Zero == Quotient(0, 1)

\* numpy's x / y on array elements
NpQuotient(x, y) ==
    IF y # 0 THEN Quotient(x, y)
    ELSE IF x > 0 THEN Special("inf") ELSE IF x < 0 THEN Special("-inf") ELSE Special("nan")

Kinds(qs) == {q.kind : q \in qs}
SameQuotient(q, r) == q.num * r.den = r.num * q.den
Negative(q) == (q.num < 0 /\ q.den > 0) \/ (q.num > 0 /\ q.den < 0)
\* q >= r for quotients
AtLeast(q, r) ==
    IF (q.den > 0) = (r.den > 0) THEN q.num * r.den >= r.num * q.den
    ELSE q.num * r.den <= r.num * q.den

RECURSIVE SumPnl(_)
SumPnl(pnls) == IF pnls = <<>> THEN 0 ELSE Head(pnls) + SumPnl(Tail(pnls))

RECURSIVE RunningMax(_, _)
\* np.maximum.accumulate(equity_values)[i]
RunningMax(equity_values, i) ==
    IF i = 1 THEN equity_values[1]
    ELSE Max(RunningMax(equity_values, i - 1), equity_values[i])

\* np.std(values) > 0 for a set of floats: "nan" compares false
StdPositive(qs) ==
    /\ Kinds(qs) \cap NonFinite = {}
    /\ \E q \in qs, r \in qs : ~SameQuotient(q, r)

\* np.mean(returns), as far as finiteness goes
MeanKind(qs) ==
    IF "nan" \in Kinds(qs) \/ {"inf", "-inf"} \subseteq Kinds(qs) THEN "nan"
    ELSE IF "inf" \in Kinds(qs) THEN "inf"
    ELSE IF "-inf" \in Kinds(qs) THEN "-inf"
    ELSE "finite"

\* pnls: the pnl of each trade; equity_values: the value of each equity sample;
\* days: (end_date - start_date).days.  returns [raised, ...ratios]
_calculate_metrics(pnls, equity_values, initial_capital, final_capital, days) ==
    LET total_return == final_capital - initial_capital
        wins == SumPnl(SelectSeq(pnls, LAMBDA x : x > 0))
        total_losses == -SumPnl(SelectSeq(pnls, LAMBDA x : x <= 0))
        profit_factor == IF total_losses > 0 THEN Quotient(wins, total_losses)
                         ELSE Special("inf")
        n == Len(equity_values)
        drawdown == {NpQuotient(RunningMax(equity_values, i) - equity_values[i],
                                RunningMax(equity_values, i)) : i \in 1..n}
        finite_dd == {q \in drawdown : q.kind = "finite"}
        top_dd == CHOOSE q \in finite_dd : \A r \in finite_dd : AtLeast(q, r)
        max_drawdown_percent ==
            IF n = 0 THEN Zero
            ELSE IF "nan" \in Kinds(drawdown) THEN Special("nan")
            ELSE IF "inf" \in Kinds(drawdown) THEN Special("inf")
            ELSE Quotient(top_dd.num * 100, top_dd.den)
        dd_positive == \/ max_drawdown_percent.kind = "inf"
                       \/ /\ max_drawdown_percent.kind = "finite"
                          /\ ~AtLeast(Zero, max_drawdown_percent)
        returns == {NpQuotient(equity_values[i + 1] - equity_values[i], equity_values[i]) :
                        i \in 1..(n - 1)}
        downside_returns == {q \in returns : q.kind = "-inf"
                                             \/ (q.kind = "finite" /\ Negative(q))}
        sharpe_ratio == IF StdPositive(returns) THEN Special("finite") ELSE Zero
        sortino_ratio == IF StdPositive(downside_returns) THEN Special(MeanKind(returns))
                         ELSE Zero
        calmar_ratio == IF dd_positive THEN Special("finite") ELSE Zero
    IN IF initial_capital = 0
       THEN [raised |-> "ZeroDivisionError"]
       ELSE IF n > 1 /\ days = 0
       THEN [raised |-> "ZeroDivisionError"]
       ELSE IF n > 1
       THEN [raised |-> "none", profit_factor |-> profit_factor,
             max_drawdown_percent |-> max_drawdown_percent,
             sharpe_ratio |-> sharpe_ratio, sortino_ratio |-> sortino_ratio,
             calmar_ratio |-> calmar_ratio]
       ELSE [raised |-> "none", profit_factor |-> profit_factor,
             max_drawdown_percent |-> max_drawdown_percent,
             sharpe_ratio |-> Zero, sortino_ratio |-> Zero, calmar_ratio |-> Zero]

RECURSIVE SeqsUpTo(_, _)
\* the sequences over S of length at most n
SeqsUpTo(S, n) ==
    IF n = 0 THEN {<<>>}
    ELSE LET shorter == SeqsUpTo(S, n - 1)
         IN shorter \cup {Append(q, x) : q \in shorter, x \in S}

\* what _calculate_metrics reads: self.trades, self.equity_curve, the capitals
\* and the dates (amounts in dollars)
MetricsInputs ==
    [fn : {"metrics"},
     pnls : SeqsUpTo({-50, 80}, 2),
     equity_values : SeqsUpTo({0, 9000, 10000}, MaxCurve),
     initial_capital : {0, 10000},
     final_capital : {10030},
     days : {0, 30}]

InitMetrics ==
    /\ positions = <<>>
    /\ position_history = <<>>
    /\ wallet = WalletInit
    /\ now = 0
    /\ lastOp = [op |-> "init", id |-> 0, pre |-> "none", result |-> "ok"]
    /\ args \in MetricsInputs
    /\ ret = NoCall
    /\ backtest = NoRun
    /\ strategy_manager = NotBuilt
    /\ rate_limiter = NotBuilt
    /\ paper_wallet = NotBuilt

CalculateMetrics ==
    /\ args.fn = "metrics" /\ ret = NoCall
    /\ ret' = [fn |-> "metrics",
               result |-> _calculate_metrics(args.pnls, args.equity_values,
                                             args.initial_capital, args.final_capital,
                                             args.days)]
    /\ UNCHANGED <<positions, position_history, wallet, now, lastOp, args, backtest, strategy_manager, rate_limiter, paper_wallet>>

NextMetrics == CalculateMetrics

SpecMetrics == InitMetrics /\ [][NextMetrics]_vars

----------------------------------------------------------------------------
(* Backtester.run_backtest.  Money in cents, time in days (time_step is one *)
(* day), start_date is day 0                                                *)

MaxBacktestDays == 3    \* end_date, in days after start_date

\* values of np.random.normal(0, 0.02), scaled by Scale
Noise == {-300, 0}

Row(pool, timestamp, apy, risk_score) ==
    [pool |-> pool, timestamp |-> timestamp, apy |-> apy, tvl |-> 600000,
     risk_score |-> risk_score, sustainability_score |-> 8]

\* the frames _get_historical_data returns: no rows at all, two steady pools,
\* and the same with the risk score of one pool rising on day 2
Frames ==
    {{},
     {Row("A", 0, 3650, 30), Row("B", 0, 1825, 30)},
     {Row("A", 0, 3650, 30), Row("B", 0, 1825, 30), Row("B", 2, 1825, 60)}}

BacktestStrategies == {DEGEN_STRATEGY, CONSERVATIVE_STRATEGY}

\* the rows of a pool up to a time, and the last of them
RowsUpTo(frame, pool, t) == {r \in frame : r.pool = pool /\ r.timestamp <= t}

LatestRow(frame, pool, t) ==
    CHOOSE r \in RowsUpTo(frame, pool, t) :
        \A q \in RowsUpTo(frame, pool, t) : q.timestamp <= r.timestamp

\* the value of a position at time t, given the noise drawn by the call
_calculate_position_value(position, frame, t, noise) ==
    IF RowsUpTo(frame, position.pool, t) = {} THEN position.entry_value
    ELSE LET latest == LatestRow(frame, position.pool, t)
             days_held == t - position.entry_time
             il_factor == IF days_held > 3 THEN 98 ELSE 100
             value == (((position.entry_value * (Growth(latest.apy, days_held) + noise))
                           \div Scale) * il_factor) \div 100
         IN IF days_held > 0 THEN Max(0, value) ELSE position.entry_value

RECURSIVE SortByApy(_)
\* opportunities.sort(key=apy, reverse=True)
SortByApy(rows) ==
    IF rows = {} THEN <<>>
    ELSE LET top == CHOOSE r \in rows : \A q \in rows : q.apy <= r.apy
         IN <<top>> \o SortByApy(rows \ {top})

\* the three best pools whose latest row passes the entry rules
_find_opportunities(frame, t, strategy) ==
    LET pools == {r.pool : r \in {q \in frame : q.timestamp <= t}}
        latest_data == {LatestRow(frame, pool, t) : pool \in pools}
        er == strategy.entry_rules
        passing == {row \in latest_data :
                       /\ row.apy >= er.min_apy /\ row.apy <= er.max_apy
                       /\ row.tvl >= er.min_tvl
                       /\ row.risk_score <= er.max_risk_score
                       /\ row.sustainability_score >= er.min_sustainability_score}
        sorted == SortByApy(passing)
    IN SubSeq(sorted, 1, Min(3, Len(sorted)))

\* positions[key] = position on a dict kept as a sequence in insertion order
DictSet(dict, key, position) ==
    IF \E i \in DOMAIN dict : dict[i].key = key
    THEN [i \in DOMAIN dict |-> IF dict[i].key = key THEN position ELSE dict[i]]
    ELSE Append(dict, position)

RECURSIVE ExitLoop(_, _, _)
\* lines 92-133 from the i-th position on; st carries capital, portfolio_value,
\* the positions kept so far and the trades; draws[i] is the noise of the two
\* calls of _calculate_position_value made for the i-th position
ExitLoop(st, i, draws) ==
    IF i > Len(st.run.positions) THEN st
    ELSE LET position == st.run.positions[i]
             t == st.run.current_time
             latest == LatestRow(st.run.frame, position.pool, t)
             exit_reason ==
                 _check_exit_conditions(
                     [strategy |-> st.run.strategy, entry_value |-> position.entry_value,
                      current_value |-> _calculate_position_value(position, st.run.frame,
                                                                  t, draws[i][1]),
                      hours_held |-> (t - position.entry_time) * HoursPerDay,
                      entry_risk |-> position.entry_risk, data |-> "row",
                      risk_score |-> latest.risk_score])
             value == _calculate_position_value(position, st.run.frame, t, draws[i][2])
         IN IF exit_reason # "none"
            THEN ExitLoop([st EXCEPT
                     !.capital = @ + value,
                     !.trades = Append(@, [entry_time |-> position.entry_time,
                                           exit_time |-> t, pool |-> position.pool,
                                           entry_value |-> position.entry_value,
                                           exit_value |-> value,
                                           pnl |-> value - position.entry_value,
                                           exit_reason |-> exit_reason])],
                     i + 1, draws)
            ELSE ExitLoop([st EXCEPT
                     !.portfolio_value = @ + value - st.capital,
                     !.kept = Append(@, [position EXCEPT !.value = value])],
                     i + 1, draws)

RECURSIVE EntryLoop(_, _, _)
\* lines 143-162 from the j-th opportunity on
EntryLoop(st, opportunities, j) ==
    IF j > Len(opportunities) THEN st
    ELSE LET opp == opportunities[j]
             ps == st.run.strategy.position_sizing
             position_size == Min(ps.fixed_size_usd * CentsPerDollar, (st.capital * 9) \div 10)
             entered == [st EXCEPT
                 !.kept = DictSet(@, Len(@),
                             [key |-> Len(st.kept), entry_time |-> st.run.current_time,
                              pool |-> opp.pool, entry_value |-> position_size,
                              entry_apy |-> opp.apy, entry_risk |-> opp.risk_score,
                              value |-> position_size]),
                 !.capital = @ - position_size,
                 !.opened = @ + 1]
         IN IF st.capital > ps.min_position_size_usd * CentsPerDollar
            THEN IF Len(entered.kept) >= st.run.strategy.risk_limits.max_total_positions
                 THEN entered
                 ELSE EntryLoop(entered, opportunities, j + 1)
            ELSE EntryLoop(st, opportunities, j + 1)

\* one pass of the while loop (lines 89-172) on the run, with the noise drawn
\* in it; an empty frame has no columns and the first lookup raises KeyError
BacktestStep(run, draws) ==
    IF run.frame = {} THEN [run EXCEPT !.phase = "raised", !.raised = "KeyError"]
    ELSE LET st0 == [run |-> run, capital |-> run.capital, portfolio_value |-> run.capital,
                     kept |-> <<>>, trades |-> run.trades, opened |-> run.opened]
             st1 == ExitLoop(st0, 1, draws)
             st2 == IF Len(st1.kept) < run.strategy.risk_limits.max_total_positions
                    THEN EntryLoop(st1, _find_opportunities(run.frame, run.current_time,
                                                            run.strategy), 1)
                    ELSE st1
         IN [run EXCEPT
                !.capital = st2.capital, !.positions = st2.kept, !.trades = st2.trades,
                !.opened = st2.opened,
                !.equity_curve = Append(@, [timestamp |-> run.current_time,
                                            value |-> st1.portfolio_value,
                                            positions |-> Len(st2.kept)]),
                !.current_time = @ + 1]

RECURSIVE FinalClose(_, _, _)
\* lines 175-195 from the i-th remaining position on
FinalClose(run, i, draws) ==
    IF i > Len(run.positions) THEN run
    ELSE LET position == run.positions[i]
             exit_value == _calculate_position_value(position, run.frame, run.end_date,
                                                     draws[i][1])
         IN FinalClose([run EXCEPT
                !.capital = @ + exit_value,
                !.trades = Append(@, [entry_time |-> position.entry_time,
                                      exit_time |-> run.end_date, pool |-> position.pool,
                                      entry_value |-> position.entry_value,
                                      exit_value |-> exit_value,
                                      pnl |-> exit_value - position.entry_value,
                                      exit_reason |-> "backtest_end"])],
                i + 1, draws)

\* lines 174-204: the final close and the metrics
BacktestEnd(run, draws) ==
    LET closed == FinalClose(run, 1, draws)
        result == _calculate_metrics([i \in DOMAIN closed.trades |-> closed.trades[i].pnl],
                                     [i \in DOMAIN closed.equity_curve |->
                                          closed.equity_curve[i].value],
                                     closed.initial_capital, closed.capital, closed.end_date)
    IN IF result.raised # "none"
       THEN [closed EXCEPT !.phase = "raised", !.raised = result.raised]
       ELSE [closed EXCEPT !.phase = "done", !.result = result]

\* the draws of one step: two per position held, as many as any step needs
Draws(run) == [DOMAIN run.positions -> Noise \X Noise]

InitBacktest ==
    /\ positions = <<>>
    /\ position_history = <<>>
    /\ wallet = WalletInit
    /\ now = 0
    /\ lastOp = [op |-> "init", id |-> 0, pre |-> "none", result |-> "ok"]
    /\ args = NoCall
    /\ ret = NoCall
    /\ strategy_manager = NotBuilt
    /\ rate_limiter = NotBuilt
    /\ paper_wallet = NotBuilt
    /\ \E strategy \in BacktestStrategies, frame \in Frames :
           backtest = [phase |-> "running", raised |-> "none", strategy |-> strategy,
                       frame |-> frame, initial_capital |-> 250 * CentsPerDollar,
                       capital |-> 250 * CentsPerDollar, positions |-> <<>>,
                       trades |-> <<>>, equity_curve |-> <<>>, current_time |-> 0,
                       end_date |-> MaxBacktestDays, opened |-> 0, result |-> NoCall]

BacktestTick ==
    /\ backtest.phase = "running"
    /\ backtest.current_time <= backtest.end_date
    /\ \E draws \in Draws(backtest) : backtest' = BacktestStep(backtest, draws)
    /\ UNCHANGED <<positions, position_history, wallet, now, lastOp, args, ret, strategy_manager, rate_limiter, paper_wallet>>

BacktestFinish ==
    /\ backtest.phase = "running"
    /\ backtest.current_time > backtest.end_date
    /\ \E draws \in Draws(backtest) : backtest' = BacktestEnd(backtest, draws)
    /\ UNCHANGED <<positions, position_history, wallet, now, lastOp, args, ret, strategy_manager, rate_limiter, paper_wallet>>

NextBacktest == BacktestTick \/ BacktestFinish

SpecBacktest == InitBacktest /\ [][NextBacktest]_vars

----------------------------------------------------------------------------
(* PnLCalculator.calculate_impermanent_loss in binary floating point with   *)
(* round-to-nearest-even, as Python's float, at a reduced precision.  A     *)
(* float is sign * m * 2^e with m of Precision bits (or m = 0); exponents   *)
(* are unbounded, so the inputs drawn neither overflow nor underflow        *)

Precision == 5    \* bits of the significand (53 in a Python float)

RECURSIVE Pow2(_)
Pow2(n) == IF n <= 0 THEN 1 ELSE 2 * Pow2(n - 1)

FZero == [sign |-> 1, m |-> 0, e |-> 0]

\* the float nearest to sign * q * 2^e (plus a fraction, when sticky), for q
\* of Precision + 1 bits: the last bit of q is the guard bit
RoundBits(sign, q, sticky, e) ==
    LET mant == q \div 2
        up == q % 2 = 1 /\ (sticky \/ mant % 2 = 1)
        m == IF up THEN mant + 1 ELSE mant
    IN IF m = Pow2(Precision) THEN [sign |-> sign, m |-> Pow2(Precision - 1), e |-> e + 2]
       ELSE [sign |-> sign, m |-> m, e |-> e + 1]

RECURSIVE RoundRat(_, _, _, _)
\* the float nearest to sign * (n / d) * 2^e, for integers n >= 0 and d > 0
RoundRat(sign, n, d, e) ==
    IF n = 0 THEN FZero
    ELSE IF n \div d < Pow2(Precision) THEN RoundRat(sign, 2 * n, d, e - 1)
    ELSE IF n \div d >= Pow2(Precision + 1) THEN RoundRat(sign, n, 2 * d, e + 1)
    ELSE RoundBits(sign, n \div d, n % d # 0, e)

\* the float of an integer
Float(i) == IF i < 0 THEN RoundRat(-1, -i, 1, 0) ELSE RoundRat(1, i, 1, 0)

FNeg(x) == IF x.m = 0 THEN x ELSE [x EXCEPT !.sign = -x.sign]

FMul(x, y) == RoundRat(x.sign * y.sign, x.m * y.m, 1, x.e + y.e)

\* x / y for y # 0
FDiv(x, y) == RoundRat(x.sign * y.sign, x.m, y.m, x.e - y.e)

FAdd(x, y) ==
    LET low == IF x.m = 0 THEN y.e ELSE IF y.m = 0 THEN x.e ELSE Min(x.e, y.e)
        total == x.sign * x.m * Pow2(x.e - low) + y.sign * y.m * Pow2(y.e - low)
    IN IF total < 0 THEN RoundRat(-1, -total, 1, low) ELSE RoundRat(1, total, 1, low)

FSub(x, y) == FAdd(x, FNeg(y))

Isqrt(n) == CHOOSE s \in 0..Pow2(Precision + 1) : s * s <= n /\ (s + 1) * (s + 1) > n

RECURSIVE SqrtBits(_, _)
\* math.sqrt of m * 2^e for m > 0 and even e
SqrtBits(m, e) ==
    IF Isqrt(m) < Pow2(Precision) THEN SqrtBits(4 * m, e - 2)
    ELSE RoundBits(1, Isqrt(m), Isqrt(m) * Isqrt(m) # m, e \div 2)

\* math.sqrt(x) for x >= 0
FSqrt(x) ==
    IF x.m = 0 THEN FZero
    ELSE IF x.e % 2 = 0 THEN SqrtBits(x.m, x.e) ELSE SqrtBits(2 * x.m, x.e - 1)

FPositive(x) == x.m > 0 /\ x.sign = 1
FNegative(x) == x.m > 0 /\ x.sign = -1

\* the prices drawn: negative, zero, 1, the float next above 1, 2 and 3
Prices ==
    {Float(-1), FZero, Float(1), RoundRat(1, Pow2(Precision - 1) + 1, Pow2(Precision - 1), 0),
     Float(2), Float(3)}

Amounts == {FZero, Float(2)}

IlInputs ==
    [fn : {"il"}, entry_price_a : Prices, entry_price_b : Prices,
     current_price_a : Prices, current_price_b : Prices,
     entry_amount_a : Amounts, entry_amount_b : Amounts]

\* lines 70-72, for entry_price_b, current_price_b and entry_price_a nonzero
price_ratio_change(a) ==
    FDiv(FDiv(a.current_price_a, a.current_price_b), FDiv(a.entry_price_a, a.entry_price_b))

\* lines 75-80
IlPercentInverted(r) ==
    IF FPositive(r)
    THEN FMul(FSub(Float(1), FDiv(FMul(Float(2), FSqrt(r)), FAdd(Float(1), r))), Float(100))
    ELSE Float(-100)

IlPercent(r) ==
    IF FPositive(r)
    THEN FMul(FSub(FDiv(FMul(Float(2), FSqrt(r)), FAdd(Float(1), r)), Float(1)), Float(100))
    ELSE Float(-100)

Raises(name) == [raised |-> name]

calculate_impermanent_loss(a) ==
    LET k == FMul(a.entry_amount_a, a.entry_amount_b)
        under_a == FDiv(FMul(k, a.current_price_b), a.current_price_a)
        under_b == FDiv(FMul(k, a.current_price_a), a.current_price_b)
        value_if_held == FAdd(FMul(a.entry_amount_a, a.current_price_a),
                              FMul(a.entry_amount_b, a.current_price_b))
        current_value_in_pool == FAdd(FMul(FSqrt(under_a), a.current_price_a),
                                      FMul(FSqrt(under_b), a.current_price_b))
    IN IF a.entry_price_b.m = 0 \/ a.current_price_b.m = 0 \/ a.entry_price_a.m = 0
       THEN Raises("ZeroDivisionError")
       ELSE IF a.current_price_a.m = 0 THEN Raises("ZeroDivisionError")
       ELSE IF FNegative(under_a) \/ FNegative(under_b) THEN Raises("ValueError")
       ELSE [raised |-> "none",
             il_percent |-> IlPercent(price_ratio_change(a)),
             il_usd |-> FSub(value_if_held, current_value_in_pool),
             current_value_if_held |-> value_if_held,
             current_value_in_pool |-> current_value_in_pool]

InitPnl ==
    /\ positions = <<>>
    /\ position_history = <<>>
    /\ wallet = WalletInit
    /\ now = 0
    /\ lastOp = [op |-> "init", id |-> 0, pre |-> "none", result |-> "ok"]
    /\ args \in IlInputs
    /\ ret = NoCall
    /\ backtest = NoRun
    /\ strategy_manager = NotBuilt
    /\ rate_limiter = NotBuilt
    /\ paper_wallet = NotBuilt

CalculateImpermanentLoss ==
    /\ ret = NoCall
    /\ ret' = [fn |-> "il", result |-> calculate_impermanent_loss(args)]
    /\ UNCHANGED <<positions, position_history, wallet, now, lastOp, args, backtest, strategy_manager, rate_limiter, paper_wallet>>

NextPnl == CalculateImpermanentLoss

SpecPnl == InitPnl /\ [][NextPnl]_vars

----------------------------------------------------------------------------
(* TradingStrategy.validate and TradingBot.set_strategy *)

\* strategies a caller may construct; max_portfolio_percent in hundredths
ValidateInputs ==
    [fn : {"validate"},
     strategy : {TradingStrategy("custom", {}, EntryRules(60, min_apy, 5000, 50000, 3),
                                 ExitRules(stop_loss, take_profit, 20, -12, 168),
                                 PositionSizing("fixed", 100, 1000, portfolio_percent, 100),
                                 RiskLimits(10, 3, 20)) :
                     min_apy \in {100, 5000, 6000}, stop_loss \in {-10, 0, 5},
                     take_profit \in {-5, 0, 30},
                     portfolio_percent \in {-10, 0, 10, 100, 150}}]

validate(strategy) ==
    IF strategy.entry_rules.min_apy >= strategy.entry_rules.max_apy THEN FALSE
    ELSE IF strategy.exit_rules.stop_loss_percent >= 0 THEN FALSE
    ELSE IF strategy.exit_rules.take_profit_percent <= 0 THEN FALSE
    ELSE IF strategy.position_sizing.max_portfolio_percent > 100 THEN FALSE
    ELSE TRUE

\* the bot's strategy after set_strategy, starting from the balanced preset
set_strategy(strategy) ==
    IF validate(strategy)
    THEN [fn |-> "set_strategy", raised |-> "none", strategy |-> strategy]
    ELSE [fn |-> "set_strategy", raised |-> "ValueError", strategy |-> BALANCED_STRATEGY]

InitValidate ==
    /\ positions = <<>>
    /\ position_history = <<>>
    /\ wallet = WalletInit
    /\ now = 0
    /\ lastOp = [op |-> "init", id |-> 0, pre |-> "none", result |-> "ok"]
    /\ args \in ValidateInputs
    /\ ret = NoCall
    /\ backtest = NoRun
    /\ strategy_manager = NotBuilt
    /\ rate_limiter = NotBuilt
    /\ paper_wallet = NotBuilt

Validate ==
    /\ ret = NoCall
    /\ ret' = [fn |-> "validate", result |-> validate(args.strategy)]
    /\ UNCHANGED <<positions, position_history, wallet, now, lastOp, args, backtest, strategy_manager, rate_limiter, paper_wallet>>

SetStrategy ==
    /\ ret = NoCall
    /\ ret' = set_strategy(args.strategy)
    /\ UNCHANGED <<positions, position_history, wallet, now, lastOp, args, backtest, strategy_manager, rate_limiter, paper_wallet>>

NextValidate == Validate \/ SetStrategy

SpecValidate == InitValidate /\ [][NextValidate]_vars

----------------------------------------------------------------------------
(* TradingBot._evaluate_opportunity.  Scores in hundredths of a point, the  *)
(* volume/TVL ratio in hundredths, sustainability on the 0..10 scale        *)

OpportunityInputs ==
    [fn : {"evaluate"},
     strategy_type : {"conservative", "balanced", "degen"},
     apy : {0, 500, 1000, 2500},
     overall_risk_score : {0, 50, 100},
     sustainability_score : {0, 5, 7, 10},
     volume_to_tvl_ratio : {<<>>, <<10>>, <<100>>, <<300>>},
     tvl : {0, 500000, 2000000}]

\* lines 262-284: the five weighted components
BaseScore(pool) ==
    LET apy_score == Min(pool.apy * 3, 3000)
        risk_score == (100 - pool.overall_risk_score) * 30
        sustainability_score == pool.sustainability_score * 200
        volume_ratio == Get(pool.volume_to_tvl_ratio, 0)
        volume_score == IF 20 <= volume_ratio /\ volume_ratio <= 200 THEN 1000 ELSE 500
        tvl_score == Min(pool.tvl \div 1000, 1000)
    IN apy_score + risk_score + sustainability_score + volume_score + tvl_score

_evaluate_opportunity(pool) ==
    IF pool.strategy_type = "degen"
    THEN IF pool.apy > 2000 THEN (BaseScore(pool) * 12) \div 10 ELSE BaseScore(pool)
    ELSE IF pool.strategy_type = "conservative"
    THEN IF pool.sustainability_score < 7 THEN (BaseScore(pool) * 7) \div 10
         ELSE BaseScore(pool)
    ELSE BaseScore(pool)

InitEvaluate ==
    /\ positions = <<>>
    /\ position_history = <<>>
    /\ wallet = WalletInit
    /\ now = 0
    /\ lastOp = [op |-> "init", id |-> 0, pre |-> "none", result |-> "ok"]
    /\ args \in OpportunityInputs
    /\ ret = NoCall
    /\ backtest = NoRun
    /\ strategy_manager = NotBuilt
    /\ rate_limiter = NotBuilt
    /\ paper_wallet = NotBuilt

EvaluateOpportunity ==
    /\ ret = NoCall
    /\ ret' = [fn |-> "evaluate", score |-> _evaluate_opportunity(args)]
    /\ UNCHANGED <<positions, position_history, wallet, now, lastOp, args, backtest, strategy_manager, rate_limiter, paper_wallet>>

NextEvaluate == EvaluateOpportunity

SpecEvaluate == InitEvaluate /\ [][NextEvaluate]_vars

----------------------------------------------------------------------------
(* ConcentratedLiquidityPosition of enhanced_pnl_calculator, in the floats  *)
(* of the impermanent-loss section                                          *)

FLess(x, y) == FNegative(FSub(x, y))
FLeq(x, y) == ~FPositive(FSub(x, y))
FMin(x, y) == IF FLeq(x, y) THEN x ELSE y
FAbs(x) == [x EXCEPT !.sign = 1]

\* prices 1/4, 1, 2, 4 and 9; amounts 0, 1, 2 and 100
RangePrices == {RoundRat(1, 1, 4, 0), Float(1), Float(2), Float(4), Float(9)}

TokenAmounts == {FZero, Float(1), Float(2), Float(100)}

LiquidityInputs ==
    [fn : {"liquidity"}, token_a_amount : TokenAmounts, token_b_amount : TokenAmounts,
     price_lower : RangePrices, price_upper : RangePrices, current_price : RangePrices]

\* the value of the liquidity field after __post_init__, or the exception
_calculate_liquidity(self) ==
    LET sqrt_price_lower == FSqrt(self.price_lower)
        sqrt_price_upper == FSqrt(self.price_upper)
        sqrt_current == FSqrt(self.current_price)
        width == FSub(sqrt_price_upper, sqrt_price_lower)
        L_from_a == FDiv(FMul(FMul(self.token_a_amount, sqrt_current), sqrt_price_upper),
                         FSub(sqrt_price_upper, sqrt_current))
        L_from_b == FDiv(self.token_b_amount, FSub(sqrt_current, sqrt_price_lower))
    IN IF FLeq(self.current_price, self.price_lower)
       THEN IF width.m = 0 THEN Raises("ZeroDivisionError")
            ELSE [raised |-> "none", liquidity |-> FDiv(self.token_b_amount, width)]
       ELSE IF FLeq(self.price_upper, self.current_price)
       THEN IF width.m = 0 THEN Raises("ZeroDivisionError")
            ELSE [raised |-> "none",
                  liquidity |-> FDiv(FMul(FMul(self.token_a_amount, sqrt_price_upper),
                                          sqrt_price_lower), width)]
       ELSE IF FSub(sqrt_price_upper, sqrt_current).m = 0
                 \/ FSub(sqrt_current, sqrt_price_lower).m = 0
       THEN Raises("ZeroDivisionError")
       ELSE [raised |-> "none", liquidity |-> FMin(L_from_a, L_from_b)]

\* for a position whose liquidity was computed and price_lower < price_upper
get_amounts_at_price(self, liquidity, price) ==
    LET sqrt_price == FSqrt(price)
        sqrt_price_lower == FSqrt(self.price_lower)
        sqrt_price_upper == FSqrt(self.price_upper)
        width == FSub(sqrt_price_upper, sqrt_price_lower)
    IN IF FLeq(price, self.price_lower)
       THEN [amount_a |-> FZero, amount_b |-> FMul(liquidity, width)]
       ELSE IF FLeq(self.price_upper, price)
       THEN [amount_a |-> FDiv(FMul(liquidity, width),
                               FMul(sqrt_price_upper, sqrt_price_lower)),
             amount_b |-> FZero]
       ELSE [amount_a |-> FDiv(FMul(liquidity, FSub(sqrt_price_upper, sqrt_price)),
                               FMul(sqrt_price, sqrt_price_upper)),
             amount_b |-> FMul(liquidity, FSub(sqrt_price, sqrt_price_lower))]

InitLiquidity ==
    /\ positions = <<>>
    /\ position_history = <<>>
    /\ wallet = WalletInit
    /\ now = 0
    /\ lastOp = [op |-> "init", id |-> 0, pre |-> "none", result |-> "ok"]
    /\ args \in LiquidityInputs
    /\ ret = NoCall
    /\ backtest = NoRun
    /\ strategy_manager = NotBuilt
    /\ rate_limiter = NotBuilt
    /\ paper_wallet = NotBuilt

\* ConcentratedLiquidityPosition(...): __post_init__ fills in the liquidity
NewConcentratedPosition ==
    /\ ret = NoCall
    /\ ret' = [fn |-> "position", result |-> _calculate_liquidity(args)]
    /\ UNCHANGED <<positions, position_history, wallet, now, lastOp, args, backtest, strategy_manager, rate_limiter, paper_wallet>>

GetAmountsAtPrice ==
    /\ ret # NoCall /\ ret.fn = "position"
    /\ ret.result.raised = "none"
    /\ FLess(args.price_lower, args.price_upper)
    /\ \E price \in RangePrices :
           ret' = [fn |-> "amounts", price |-> price,
                   result |-> get_amounts_at_price(args, ret.result.liquidity, price)]
    /\ UNCHANGED <<positions, position_history, wallet, now, lastOp, args, backtest, strategy_manager, rate_limiter, paper_wallet>>

NextLiquidity == NewConcentratedPosition \/ GetAmountsAtPrice

SpecLiquidity == InitLiquidity /\ [][NextLiquidity]_vars

----------------------------------------------------------------------------
(* The position manager on a book that already holds positions, and on a    *)
(* wallet that is nearly empty                                              *)

MaxBook == 5     \* positions entered before the calls that are explored
MaxCalls == 3    \* calls explored from there

\* wallets the manager may work on: one cent, and the default
BookBalances == {1, initial_balance}

BookAmounts == {1, 1000 * CentsPerDollar, 2000 * CentsPerDollar}

\* the snapshots supplied to update_position: {} and a healthy pool
BookMetrics == {Metrics(<<>>, <<>>, <<>>, <<>>), Metrics(<<>>, <<100000>>, <<>>, <<>>)}

RECURSIVE Entered(_, _)
\* the manager after n calls enter_position(pool, 1000)
Entered(s, n) ==
    IF n = 0 THEN s
    ELSE enter_position(Entered(s, n - 1), 3650, 1000 * CentsPerDollar).s

\* lastOp.n counts the calls made since
InitBook ==
    /\ now = 0
    /\ \E balance \in BookBalances, n \in {0, MaxBook - 1, MaxBook} :
           LET s == Entered([positions |-> <<>>, position_history |-> <<>>,
                             wallet |-> MockWalletService(balance)], n)
           IN /\ positions = s.positions
              /\ position_history = s.position_history
              /\ wallet = s.wallet
    /\ lastOp = [op |-> "init", id |-> 0, pre |-> "none", result |-> "ok", n |-> 0]
    /\ args = NoCall
    /\ ret = NoCall
    /\ backtest = NoRun
    /\ strategy_manager = NotBuilt
    /\ rate_limiter = NotBuilt
    /\ paper_wallet = NotBuilt

\* the ids a caller may name: those handed out and one that is not
BookIds == 1..(Len(positions) + 1)

BookEnter ==
    \E amount \in BookAmounts :
        /\ lastOp.n < MaxCalls
        /\ LET r == enter_position(PM, 3650, amount)
           IN /\ Install(r.s)
              /\ lastOp' = [op |-> "enter", id |-> r.id, pre |-> "none", result |-> r.result,
                            n |-> lastOp.n + 1]
        /\ UNCHANGED <<now, args, ret, backtest, strategy_manager, rate_limiter, paper_wallet>>

BookUpdate ==
    \E id \in BookIds, m \in BookMetrics :
        /\ lastOp.n < MaxCalls
        /\ LET r == update_position(PM, id, m)
           IN /\ Install(r.s)
              /\ lastOp' = [op |-> "update", id |-> id, pre |-> StatusOf(id),
                            result |-> r.result, n |-> lastOp.n + 1]
        /\ UNCHANGED <<now, args, ret, backtest, strategy_manager, rate_limiter, paper_wallet>>

BookExit ==
    \E id \in BookIds :
        /\ lastOp.n < MaxCalls
        /\ LET r == exit_position(PM, id, "manual")
           IN /\ Install(r.s)
              /\ lastOp' = [op |-> "exit", id |-> id, pre |-> StatusOf(id),
                            result |-> r.result, n |-> lastOp.n + 1]
        /\ UNCHANGED <<now, args, ret, backtest, strategy_manager, rate_limiter, paper_wallet>>

NextBook == BookEnter \/ BookUpdate \/ BookExit

SpecBook == InitBook /\ [][NextBook]_vars

----------------------------------------------------------------------------
(* MockWalletService called directly.  lastOp.pre is the wallet before the  *)
(* call, lastOp.result whether the call was refused                         *)

MaxLedger == 4    \* transactions recorded since the wallet was created or reset

WalletAmounts == {0, 50, 200}

WalletPnls == {-60, 10}

InitWallet ==
    /\ positions = <<>>
    /\ position_history = <<>>
    /\ wallet = MockWalletService(100)
    /\ now = 0
    /\ lastOp = [op |-> "init", id |-> 0, pre |-> MockWalletService(100), result |-> "ok"]
    /\ args = NoCall
    /\ ret = NoCall
    /\ backtest = NoRun
    /\ strategy_manager = NotBuilt
    /\ rate_limiter = NotBuilt
    /\ paper_wallet = NotBuilt

Called(op, refused) ==
    /\ lastOp' = [op |-> op, id |-> 0, pre |-> wallet,
                  result |-> IF refused THEN "refused" ELSE "ok"]
    /\ UNCHANGED <<positions, position_history, now, args, ret, backtest, strategy_manager, rate_limiter, paper_wallet>>

WalletEnter ==
    \E amount \in WalletAmounts :
        /\ Len(wallet.transactions) < MaxLedger
        /\ wallet' = wallet_enter_position(wallet, 1, amount).w
        /\ Called("enter_position", ~wallet_enter_position(wallet, 1, amount).ok)

WalletExit ==
    \E amount \in WalletAmounts, pnl \in WalletPnls :
        /\ Len(wallet.transactions) < MaxLedger
        /\ wallet' = wallet_exit_position(wallet, 1, amount, pnl)
        /\ Called("exit_position", FALSE)

WalletPayFee ==
    \E amount \in WalletAmounts :
        /\ Len(wallet.transactions) < MaxLedger
        /\ wallet' = pay_fee(wallet, amount)
        /\ Called("pay_fee", amount > wallet.balance)

WalletAddReward ==
    \E amount \in WalletAmounts :
        /\ Len(wallet.transactions) < MaxLedger
        /\ wallet' = add_reward(wallet, amount)
        /\ Called("add_reward", FALSE)

WalletReset ==
    /\ wallet' = reset(wallet)
    /\ Called("reset", FALSE)

NextWallet == WalletEnter \/ WalletExit \/ WalletPayFee \/ WalletAddReward \/ WalletReset

SpecWallet == InitWallet /\ [][NextWallet]_vars

----------------------------------------------------------------------------
(* StrategyManager: add_strategy, start_strategy, stop_strategy and the     *)
(* asyncio tasks running _run_strategy.  A strategy id is the index of its  *)
(* instance; a task is suspended at one of its awaits, and task.cancel()    *)
(* makes its next step raise CancelledError there                           *)

MaxStrategies == 2    \* instances stored
MaxTasks == 2         \* tasks created

StrategyTypes == {"balanced", "custom"}

\* the preset types are the keys of STRATEGY_PRESETS
PresetTypes == {"conservative", "balanced", "degen"}

Allocations == {-50, 60, 150}

StrategyManager ==
    [built |-> TRUE, strategies |-> <<>>, running_tasks |-> <<>>, tasks |-> <<>>]

RECURSIVE SumAllocations(_)
SumAllocations(strategies) ==
    IF strategies = <<>> THEN 0
    ELSE Head(strategies).capital_allocation + SumAllocations(Tail(strategies))

\* the validation looking at the new allocation alone
_validate_capital_allocation_alone(self, new_allocation) ==
    new_allocation <= 100

_validate_capital_allocation(self, new_allocation) ==
    SumAllocations(self.strategies) + new_allocation <= 100

\* returns [self, result]
add_strategy(self, strategy_type, capital_allocation) ==
    IF ~_validate_capital_allocation(self, capital_allocation)
    THEN [self |-> self, result |-> "ValueError"]
    ELSE IF strategy_type \notin PresetTypes
    THEN [self |-> self, result |-> "ValueError"]
    ELSE [self |-> [self EXCEPT
                      !.strategies = Append(@, [strategy_type |-> strategy_type,
                                                capital_allocation |-> capital_allocation,
                                                is_active |-> FALSE]),
                      !.running_tasks = Append(@, 0)],
          result |-> "ok"]

\* asyncio.create_task(self._run_strategy(instance))
NewTask(strategy_id) ==
    [instance |-> strategy_id, at |-> "created", must_cancel |-> FALSE]

\* returns [self, result]
start_strategy(self, strategy_id) ==
    IF strategy_id \notin DOMAIN self.strategies THEN [self |-> self, result |-> "ValueError"]
    ELSE IF self.strategies[strategy_id].is_active THEN [self |-> self, result |-> "already_active"]
    ELSE [self |-> [self EXCEPT !.strategies[strategy_id].is_active = TRUE,
                                !.tasks = Append(@, NewTask(strategy_id)),
                                !.running_tasks[strategy_id] = Len(self.tasks) + 1],
          result |-> "ok"]

\* stop_strategy leaving the task alone
stop_strategy_without_cancel(self, strategy_id) ==
    IF strategy_id \notin DOMAIN self.strategies THEN [self |-> self, result |-> "ValueError"]
    ELSE [self |-> [self EXCEPT !.strategies[strategy_id].is_active = FALSE],
          result |-> "ok"]

\* returns [self, result]
stop_strategy(self, strategy_id) ==
    IF strategy_id \notin DOMAIN self.strategies THEN [self |-> self, result |-> "ValueError"]
    ELSE LET task == self.running_tasks[strategy_id]
             stopped == [self EXCEPT !.strategies[strategy_id].is_active = FALSE]
         IN IF task # 0 /\ self.tasks[task].at # "done"
            THEN [self |-> [stopped EXCEPT !.tasks[task].must_cancel = TRUE], result |-> "ok"]
            ELSE [self |-> stopped, result |-> "ok"]

\* one step of the task: from where it is suspended to its next await or to
\* its end; raised says whether the trading cycle under way raises
_run_strategy(self, t, raised) ==
    LET task == self.tasks[t]
        loop_test == IF self.strategies[task.instance].is_active THEN "trading_cycle" ELSE "done"
    IN IF task.must_cancel THEN [self EXCEPT !.tasks[t].at = "done"]
       ELSE IF task.at = "trading_cycle"
       THEN [self EXCEPT !.tasks[t].at = IF raised THEN "error_sleep" ELSE "sleep"]
       ELSE [self EXCEPT !.tasks[t].at = loop_test]

InitStrategies ==
    /\ positions = <<>>
    /\ position_history = <<>>
    /\ wallet = WalletInit
    /\ now = 0
    /\ lastOp = [op |-> "init", id |-> 0, pre |-> 0, result |-> "ok"]
    /\ args = NoCall
    /\ ret = NoCall
    /\ backtest = NoRun
    /\ strategy_manager = StrategyManager
    /\ rate_limiter = NotBuilt
    /\ paper_wallet = NotBuilt

\* lastOp names the call just made, its argument and its outcome
ManagerCalled(op, id, r) ==
    /\ strategy_manager' = r.self
    /\ lastOp' = [op |-> op, id |-> id, pre |-> 0, result |-> r.result]
    /\ UNCHANGED <<positions, position_history, wallet, now, args, ret, backtest,
                   rate_limiter, paper_wallet>>

AddStrategy ==
    \E strategy_type \in StrategyTypes, capital_allocation \in Allocations :
        /\ Len(strategy_manager.strategies) < MaxStrategies
        /\ ManagerCalled("add_strategy", capital_allocation,
                         add_strategy(strategy_manager, strategy_type, capital_allocation))

StartStrategy ==
    \E strategy_id \in 1..MaxStrategies :
        /\ Len(strategy_manager.tasks) < MaxTasks
        /\ ManagerCalled("start_strategy", strategy_id,
                         start_strategy(strategy_manager, strategy_id))

StopStrategy ==
    \E strategy_id \in 1..MaxStrategies :
        /\ strategy_manager.built
        /\ ManagerCalled("stop_strategy", strategy_id,
                         stop_strategy(strategy_manager, strategy_id))

\* the event loop resumes a task that is not finished
RunStrategy ==
    \E t \in DOMAIN strategy_manager.tasks, raised \in BOOLEAN :
        /\ strategy_manager.tasks[t].at # "done"
        /\ ManagerCalled("_run_strategy", t,
                         [self |-> _run_strategy(strategy_manager, t, raised), result |-> "ok"])

NextStrategies == AddStrategy \/ StartStrategy \/ StopStrategy \/ RunStrategy

SpecStrategies == InitStrategies /\ [][NextStrategies]_vars

----------------------------------------------------------------------------
(* RateLimiter.check_rate_limit: one deque of call times per key.  Times    *)
(* are seconds; admitted is a history variable holding every admitted call  *)

Minute == 60          \* timedelta(minutes=1), in seconds
MaxTime == 120        \* the clock stops here
MaxAdmitted == 6      \* admitted calls over all keys

Keys == {"/api/hunt", "/api/unlisted"}

\* rate_limits.get(key, 60), for the keys drawn
rate_limits(key) == IF key = "/api/hunt" THEN 5 ELSE Minute

RateLimiter ==
    [built |-> TRUE,
     call_history |-> [key \in Keys |-> <<>>],
     admitted |-> [key \in Keys |-> <<>>]]

\* while history and history[0] < one_minute_ago: popleft()
RECURSIVE clean_old_entries(_, _)
clean_old_entries(history, one_minute_ago) ==
    IF history # <<>> /\ Head(history) < one_minute_ago
    THEN clean_old_entries(Tail(history), one_minute_ago)
    ELSE history

\* the limit test letting one call more through
check_rate_limit_above_limit(self, key, time) ==
    LET history == clean_old_entries(self.call_history[key], time - Minute)
        limit == rate_limits(key)
    IN IF Len(history) > limit
       THEN [self |-> [self EXCEPT !.call_history[key] = history], result |-> "False"]
       ELSE [self |-> [self EXCEPT !.call_history[key] = Append(history, time),
                                   !.admitted[key] = Append(@, time)],
             result |-> "True"]

\* returns [self, result]; time is datetime.now()
check_rate_limit(self, key, time) ==
    LET history == clean_old_entries(self.call_history[key], time - Minute)
        limit == rate_limits(key)
    IN IF Len(history) >= limit
       THEN [self |-> [self EXCEPT !.call_history[key] = history], result |-> "False"]
       ELSE [self |-> [self EXCEPT !.call_history[key] = Append(history, time),
                                   !.admitted[key] = Append(@, time)],
             result |-> "True"]

InitLimiter ==
    /\ positions = <<>>
    /\ position_history = <<>>
    /\ wallet = WalletInit
    /\ now = 0
    /\ lastOp = [op |-> "init", id |-> "", pre |-> 0, result |-> "ok"]
    /\ args = NoCall
    /\ ret = NoCall
    /\ backtest = NoRun
    /\ strategy_manager = NotBuilt
    /\ rate_limiter = RateLimiter
    /\ paper_wallet = NotBuilt

AdmittedCount == Len(rate_limiter.admitted["/api/hunt"]) + Len(rate_limiter.admitted["/api/unlisted"])

CheckRateLimit ==
    \E key \in Keys :
        LET r == check_rate_limit(rate_limiter, key, now)
        IN /\ r.result = "True" => AdmittedCount < MaxAdmitted
           /\ rate_limiter' = r.self
           /\ lastOp' = [op |-> "check_rate_limit", id |-> key, pre |-> 0, result |-> r.result]
           /\ UNCHANGED <<positions, position_history, wallet, now, args, ret, backtest,
                          strategy_manager, paper_wallet>>

\* the wall clock moves on by half a minute
ClockTick ==
    /\ now + Minute \div 2 <= MaxTime
    /\ now' = now + Minute \div 2
    /\ lastOp' = [op |-> "tick", id |-> "", pre |-> 0, result |-> "ok"]
    /\ UNCHANGED <<positions, position_history, wallet, args, ret, backtest,
                   strategy_manager, rate_limiter, paper_wallet>>

NextLimiter == CheckRateLimit \/ ClockTick

SpecLimiter == InitLimiter /\ [][NextLimiter]_vars

----------------------------------------------------------------------------
(* PaperWallet: lock_funds, unlock_funds, reset.  Amounts are whole dollars; *)
(* positions is the dict from position id to the amount locked              *)

MaxPaperTransactions == 3    \* transactions between resets

\* initial_balance: float = 10000.0
PaperInitialBalance == 10000

PaperIds == {"p1", "p2"}
LockAmounts == {100, 300, 20000}
ExitValues == {50, 300}

PaperWallet(initial) ==
    [built |-> TRUE, initial_balance |-> initial, balance |-> initial,
     locked_balance |-> 0, transactions |-> <<>>, positions |-> [id \in {} |-> 0]]

get_available_balance(self) == self.balance - self.locked_balance

\* returns [self, result]
lock_funds(self, amount, position_id) ==
    IF amount > get_available_balance(self) THEN [self |-> self, result |-> "False"]
    ELSE [self |-> [self EXCEPT
                      !.locked_balance = @ + amount,
                      !.positions = [id \in DOMAIN self.positions \cup {position_id} |->
                                        IF id = position_id THEN amount ELSE self.positions[id]],
                      !.transactions = Append(@, [type |-> "lock", amount |-> amount,
                                                  position_id |-> position_id,
                                                  balance_after |-> self.balance])],
          result |-> "True"]

\* returns [self, result]; result is the pnl, 0 for an unknown id
unlock_funds(self, position_id, exit_value) ==
    IF position_id \notin DOMAIN self.positions THEN [self |-> self, result |-> 0]
    ELSE LET entry_value == self.positions[position_id]
             pnl == exit_value - entry_value
         IN [self |-> [self EXCEPT
                         !.locked_balance = @ - entry_value,
                         !.balance = @ + pnl,
                         !.positions = [id \in DOMAIN self.positions \ {position_id} |->
                                           self.positions[id]],
                         !.transactions = Append(@, [type |-> "unlock", amount |-> pnl,
                                                     position_id |-> position_id,
                                                     balance_after |-> self.balance + pnl])],
             result |-> pnl]

paper_reset(self) == PaperWallet(self.initial_balance)

InitPaper ==
    /\ positions = <<>>
    /\ position_history = <<>>
    /\ wallet = WalletInit
    /\ now = 0
    /\ lastOp = [op |-> "init", id |-> "", pre |-> 0, result |-> 0]
    /\ args = NoCall
    /\ ret = NoCall
    /\ backtest = NoRun
    /\ strategy_manager = NotBuilt
    /\ rate_limiter = NotBuilt
    /\ paper_wallet = PaperWallet(PaperInitialBalance)

PaperCalled(op, id, self) ==
    /\ paper_wallet' = self
    /\ lastOp' = [op |-> op, id |-> id, pre |-> 0, result |-> 0]
    /\ UNCHANGED <<positions, position_history, wallet, now, args, ret, backtest,
                   strategy_manager, rate_limiter>>

LockFunds ==
    \E amount \in LockAmounts, position_id \in PaperIds :
        /\ Len(paper_wallet.transactions) < MaxPaperTransactions
        /\ PaperCalled("lock_funds", position_id,
                       lock_funds(paper_wallet, amount, position_id).self)

UnlockFunds ==
    \E position_id \in PaperIds, exit_value \in ExitValues :
        /\ Len(paper_wallet.transactions) < MaxPaperTransactions
        /\ PaperCalled("unlock_funds", position_id,
                       unlock_funds(paper_wallet, position_id, exit_value).self)

PaperReset ==
    /\ paper_wallet.built
    /\ PaperCalled("reset", "", paper_reset(paper_wallet))

NextPaper == LockFunds \/ UnlockFunds \/ PaperReset

SpecPaper == InitPaper /\ [][NextPaper]_vars

----------------------------------------------------------------------------
(* Properties of the position lifecycle *)

Occurrences(seq, x) == Cardinality({i \in DOMAIN seq : seq[i] = x})

\* C1: once a position is EXITED (or FAILED) no later operation changes any
\* of its fields; update_position on it fails instead of recomputing
\* current_value, pnl_amount, pnl_percent, rewards_earned or current_apy.
C1_ExitedIsTerminal ==
    [][\A id \in DOMAIN positions :
          positions[id].status \in {"exited", "failed"} =>
              positions'[id] = positions[id]]_vars

\* C2: exit_position on a position that is already terminal raises and leaves
\* the position, the wallet balance, the wallet transactions and
\* position_history as they were.
C2_SecondExitRejected ==
    [][\A id \in DOMAIN positions :
          (positions[id].status # "active" /\ lastOp'.op = "exit" /\ lastOp'.id = id) =>
              /\ lastOp'.result = "not_active"
              /\ positions' = positions
              /\ wallet' = wallet
              /\ position_history' = position_history]_vars

\* a second exit_position was called on a position already closed and recorded
C2_Witness ==
    /\ lastOp.op = "exit" /\ lastOp.pre = "exited" /\ lastOp.result = "not_active"
    /\ Occurrences(position_history, lastOp.id) = 1
    /\ Len(wallet.transactions) = 5

\* C3: every exited position appears exactly once in position_history and is
\* no longer held in the open-position map, so the summary counts it once.
C3_ExitedMovedToHistory ==
    \A id \in 1..MaxPositions :
        (id \in DOMAIN positions /\ positions[id].status = "exited") =>
            /\ Occurrences(position_history, id) = 1
            /\ get_position_summary(PM).total_positions = Len(positions)

\* C4: an update_position pass over an ACTIVE position ends either with the
\* position still ACTIVE and its value fields updated, or with the position
\* EXITED with an exit reason, an exit time and one history record.
C4_UpdateTotality ==
    (lastOp.op = "update" /\ lastOp.pre = "active") =>
        LET p == positions[lastOp.id]
        IN /\ lastOp.result = "ok"
           /\ \/ /\ p.status = "active"
                 /\ p.exit_reason = "none" /\ p.exit_time = NoneVal
                 /\ Occurrences(position_history, lastOp.id) = 0
              \/ /\ p.status = "exited"
                 /\ p.exit_reason # "none" /\ p.exit_time # NoneVal
                 /\ Occurrences(position_history, lastOp.id) = 1

\* the last call ran Position.calculate_current_value on the position it names
Revalued ==
    /\ lastOp.op \in {"update", "exit"}
    /\ lastOp.result \in {"ok", "ZeroDivisionError"}

\* C11 as stated: after a revaluation pnl_amount = current_value - entry_amount
\* - gas_spent + rewards_earned.
C11_PnlIdentityWithRewardsAdded ==
    Revalued =>
        LET p == positions[lastOp.id]
        IN p.pnl_amount = p.current_value - p.entry_amount - p.gas_spent + p.rewards_earned

\* C11 amended: after a revaluation pnl_amount = current_value - entry_amount
\* - gas_spent, the rewards being part of current_value already.
C11_PnlIdentity ==
    Revalued =>
        LET p == positions[lastOp.id]
        IN p.pnl_amount = p.current_value - p.entry_amount - p.gas_spent

\* a position revalued a day after entry, with rewards earned and both gas
\* fees charged
C11_Witness ==
    /\ Revalued /\ lastOp.result = "ok"
    /\ positions[lastOp.id].rewards_earned > 0
    /\ positions[lastOp.id].gas_spent = 2 * GasFee

\* C12: the current_value of every position is >= 0 in every reachable state.
C12_CurrentValueNonNegative ==
    \A id \in DOMAIN positions : positions[id].current_value >= 0

----------------------------------------------------------------------------
(* Properties of the exit-rule evaluators *)

\* place of a reason in the priority order STOP_LOSS, TAKE_PROFIT, TIME_LIMIT,
\* IMPERMANENT_LOSS_THRESHOLD, RISK_INCREASE, RUG_DETECTED, LOW_LIQUIDITY,
\* BETTER_OPPORTUNITY; 0 for a reason outside the order
Rank(reason) ==
    CASE reason = "stop_loss" -> 1
      [] reason = "take_profit" -> 2
      [] reason = "time_limit" -> 3
      [] reason = "il_threshold" -> 4
      [] reason = "risk_increase" -> 5
      [] reason \in {"rug_detection", "rug_risk"} -> 6
      [] reason = "low_liquidity" -> 7
      [] reason = "better_opportunity" -> 8
      [] OTHER -> 0

\* the rules of the order whose condition holds on the inputs
MatchingRules(a) ==
    IF a.fn = "bot" THEN
        {r \in {"stop_loss"} : BotStopLoss(a)} \cup {r \in {"take_profit"} : BotTakeProfit(a)}
        \cup {r \in {"time_limit"} : BotTimeLimit(a)}
        \cup {r \in {"il_threshold"} : BotIlThreshold(a)}
        \cup {r \in {"rug_detection"} : _detect_rug_pull(a)}
        \cup {r \in {"better_opportunity"} : BotBetterOpportunity(a)}
    ELSE IF a.fn = "backtest" THEN
        {r \in {"stop_loss"} : BtStopLoss(a)} \cup {r \in {"take_profit"} : BtTakeProfit(a)}
        \cup {r \in {"time_limit"} : BtTimeLimit(a)}
        \cup {r \in {"risk_increase"} : BtRiskIncrease(a)}
    ELSE
        {r \in {"stop_loss"} : PosStopLoss(a)} \cup {r \in {"take_profit"} : PosTakeProfit(a)}
        \cup {r \in {"low_liquidity"} : PosLowLiquidity(a)}
        \cup {r \in {"rug_risk"} : PosRugRisk(a)}

\* C5: every evaluator returns the earliest matching rule of the priority
\* order: no rule that also matches comes before the returned reason.
C5_FirstMatchWins ==
    (ret # NoCall /\ Rank(ret.reason) > 0) =>
        \A r \in MatchingRules(args) : Rank(r) >= Rank(ret.reason)

\* C6: once the TVL has dropped from entry by the rug threshold, TradingBot's
\* evaluator returns RUG_DETECTION, whatever other rule matches.
C6_RugAheadOfAll ==
    (ret # NoCall /\ ret.fn = "bot" /\ RugTvlDrop(args)) => ret.reason = "rug_detection"

----------------------------------------------------------------------------
(* Properties of the entry checks *)

\* the checks in the order capital, position count, per-protocol count,
\* per-token count, position size, total exposure, blocked token
CheckOrder ==
    <<"insufficient_balance", "max_positions", "max_per_protocol", "max_per_token",
      "max_position_size", "max_total_exposure", "blocked_token">>

\* the checks of the order that fail on the inputs
FailedChecks(a) ==
    IF a.fn = "pm_can_enter" THEN
        {r \in {"insufficient_balance"} : a.amount > a.wallet_balance}
        \cup {r \in {"max_positions"} : a.active_count >= max_positions}
        \cup {r \in {"max_position_size"} : a.amount > max_position_size}
        \cup {r \in {"max_total_exposure"} : a.total_active + a.amount > max_total_exposure}
    ELSE
        {r \in {"max_positions"} : BotTotalFull(a)}
        \cup {r \in {"max_per_protocol"} : BotProtocolFull(a)}
        \cup {r \in {"max_per_token"} : BotTokenFull(a)}
        \cup {r \in {"blocked_token"} : BotTokenBlocked(a)}

FirstFailedCheck(a) ==
    LET i == CHOOSE j \in DOMAIN CheckOrder :
                 /\ CheckOrder[j] \in FailedChecks(a)
                 /\ \A k \in 1..(j - 1) : CheckOrder[k] \notin FailedChecks(a)
    IN CheckOrder[i]

\* C7: every rejection of an entry check, of PositionManager or of TradingBot,
\* carries a reason, and the reason names the first check of the order that
\* failed.
C7_RejectionNamesFirstFailedCheck ==
    (ret # NoCall /\ ret.fn \in {"pm_can_enter", "bot_can_enter"} /\ ~ret.ok) =>
        /\ "reason" \in DOMAIN ret
        /\ ret.reason = FirstFailedCheck(args)

\* C8: when can_enter_position rejects at a total exposure, it rejects at
\* every larger total exposure with the same amount, balance and position
\* count.
C8_RejectionMonotoneInExposure ==
    (ret # NoCall /\ ret.fn = "pm_can_enter" /\ ~ret.ok) =>
        \A x \in {i.total_active : i \in PmEntryInputs} :
            x > args.total_active =>
                ~CanEnterCheck(args.amount, args.wallet_balance, args.active_count, x).ok

\* the check rejected for exposure at 4,500 with an amount it accepts at 4,000,
\* and a larger exposure exists to compare with
C8_Witness ==
    /\ ret # NoCall /\ ret.fn = "pm_can_enter"
    /\ ~ret.ok /\ ret.reason = "max_total_exposure"
    /\ args.total_active = 4500 * CentsPerDollar
    /\ CanEnterCheck(args.amount, args.wallet_balance, args.active_count,
                     4000 * CentsPerDollar).ok

----------------------------------------------------------------------------
(* Properties of the position sizing *)

MinSize(a) == a.strategy.position_sizing.min_position_size_usd * MillsPerDollar
MaxSize(a) == a.strategy.position_sizing.max_position_size_usd * MillsPerDollar

\* C9 as stated: the size lies within [min_position_size_usd,
\* max_position_size_usd] and does not exceed the available capital.
C9_SizeWithinLimits ==
    (ret # NoCall /\ ret.fn = "size") =>
        /\ MinSize(args) <= ret.size /\ ret.size <= MaxSize(args)
        /\ ret.size <= _get_available_capital(args)

\* C9 amended: the size is at most max_position_size_usd and at most the
\* available capital rounded to the cent; it is at least min_position_size_usd
\* whenever that much capital is available; a fixed size of 5000 with a
\* maximum of 1000 gives exactly 1000 when 1000 is available.
C9_SizeCappedByMaxAndAvailable ==
    (ret # NoCall /\ ret.fn = "size") =>
        /\ ret.size <= MaxSize(args)
        /\ ret.size <= Round2(_get_available_capital(args))
        /\ _get_available_capital(args) >= MinSize(args) => ret.size >= MinSize(args)
        /\ (args.strategy = LARGE_FIXED_STRATEGY
               /\ _get_available_capital(args) >= 1000 * MillsPerDollar)
              => ret.size = 1000 * MillsPerDollar

\* fixed size 5000, maximum 1000, 8000 available: the size returned is 1000
C9_Witness ==
    /\ ret # NoCall /\ ret.fn = "size"
    /\ args.strategy = LARGE_FIXED_STRATEGY
    /\ _get_available_capital(args) = 8000 * MillsPerDollar
    /\ ret.size = 1000 * MillsPerDollar

\* C10: with no closed trade recorded the Kelly method returns what the fixed
\* method returns, the configured fixed size under the same limits.
C10_KellyFallsBackWithoutTrades ==
    (ret # NoCall /\ ret.fn = "size"
        /\ args.strategy.position_sizing.sizing_method = "kelly"
        /\ args.tracker.total_trades = 0) =>
        ret.size = Round2(Min(ApplyLimits(args, FixedSize(args)),
                              _get_available_capital(args)))

----------------------------------------------------------------------------
(* Properties of the backtester *)

RatioNames ==
    {"profit_factor", "max_drawdown_percent", "sharpe_ratio", "sortino_ratio", "calmar_ratio"}

\* C16: _calculate_metrics completes without raising and none of its ratios
\* is NaN or infinite.
C16_MetricsDefined ==
    (ret # NoCall /\ ret.fn = "metrics") =>
        /\ ret.result.raised = "none"
        /\ \A name \in RatioNames : ret.result[name].kind \notin NonFinite

Running == backtest.phase = "running"

\* C13: at the end of a run the number of trade records equals the number of
\* positions opened: no open position was lost or overwritten.
C13_EveryPositionYieldsOneTrade ==
    backtest.phase = "done" => Len(backtest.trades) = backtest.opened

\* C14: the outcome of a pass of the loop, and of the final close, is a
\* function of the run's state alone: whatever the random draws, the trades
\* and the equity curve are the same.
C14_RunIsDeterministic ==
    Running =>
        \A d1, d2 \in Draws(backtest) :
            IF backtest.current_time <= backtest.end_date
            THEN BacktestStep(backtest, d1) = BacktestStep(backtest, d2)
            ELSE BacktestEnd(backtest, d1) = BacktestEnd(backtest, d2)

RECURSIVE SumValues(_)
SumValues(dict) ==
    IF dict = <<>> THEN 0 ELSE Head(dict).value + SumValues(Tail(dict))

\* C15: every pass of the loop has recorded one equity sample, and the last
\* sample's value is the cash plus the current values of the positions open
\* at the end of the pass, its count the number of those positions.
C15_EquitySampleIsCashPlusPositions ==
    (Running /\ backtest.current_time > 0) =>
        LET sample == backtest.equity_curve[Len(backtest.equity_curve)]
        IN /\ Len(backtest.equity_curve) = backtest.current_time
           /\ sample.timestamp = backtest.current_time - 1
           /\ sample.value = backtest.capital + SumValues(backtest.positions)
           /\ sample.positions = Len(backtest.positions)

\* C17: no exception raised in a pass of the loop ends the run.
C17_RunSurvivesTickException ==
    backtest.phase # "raised"

----------------------------------------------------------------------------
(* Properties of the impermanent-loss calculation *)

\* the call returned a result for a positive price-ratio change
ReturnedForPositiveRatio ==
    /\ ret # NoCall /\ ret.fn = "il"
    /\ ret.result.raised = "none"
    /\ FPositive(price_ratio_change(args))

RatioNotPositive(a) ==
    \/ \E name \in {"entry_price_a", "entry_price_b", "current_price_a", "current_price_b"} :
           a[name].m = 0
    \/ ~FPositive(price_ratio_change(a))

\* C19: for a price-ratio change of zero or below (a price is zero or
\* negative) the call returns il_percent = -100 and raises nothing.
C19_TotalLossGuard ==
    (ret # NoCall /\ ret.fn = "il" /\ RatioNotPositive(args)) =>
        /\ ret.result.raised = "none"
        /\ ret.result.il_percent = Float(-100)

----------------------------------------------------------------------------
(* Properties of strategy validation *)

ValidityInvariant(strategy) ==
    /\ strategy.entry_rules.min_apy < strategy.entry_rules.max_apy
    /\ strategy.exit_rules.stop_loss_percent < 0
    /\ strategy.exit_rules.take_profit_percent > 0
    /\ strategy.position_sizing.max_portfolio_percent > 0
    /\ strategy.position_sizing.max_portfolio_percent <= 100

\* C20: validate returns True exactly when min_apy < max_apy, stop_loss < 0 <
\* take_profit and 0 < max_portfolio_percent <= 1, and set_strategy installs
\* exactly the strategies of that kind.
C20_ValidateIsValidityInvariant ==
    /\ (ret # NoCall /\ ret.fn = "validate") =>
           (ret.result <=> ValidityInvariant(args.strategy))
    /\ (ret # NoCall /\ ret.fn = "set_strategy") =>
           (ret.raised = "none" <=> ValidityInvariant(args.strategy))

----------------------------------------------------------------------------
(* Properties of the opportunity score *)

\* C21: for a pool whose inputs are in range the score returned by
\* _evaluate_opportunity lies in [0, 100], under every strategy type.
C21_ScoreWithinBounds ==
    (ret # NoCall /\ ret.fn = "evaluate") =>
        /\ ret.score >= 0
        /\ ret.score <= 100 * 100

----------------------------------------------------------------------------
(* Properties of the concentrated-liquidity position *)

\* a quarter of the precision is left to rounding
WithinEpsilon(x, y) ==
    FLeq(FAbs(FSub(x, y)),
         FMul(RoundRat(1, 1, Pow2(Precision - 3), 0),
              IF FLeq(FAbs(x), FAbs(y)) THEN FAbs(y) ELSE FAbs(x)))

\* C22: with the price strictly inside the range, the amounts at the original
\* price of the liquidity computed from (a, b) are (a, b) within epsilon.
C22_LiquidityRoundTrip ==
    (/\ ret # NoCall /\ ret.fn = "amounts"
     /\ ret.price = args.current_price
     /\ FLess(args.price_lower, args.current_price)
     /\ FLess(args.current_price, args.price_upper)) =>
        /\ WithinEpsilon(ret.result.amount_a, args.token_a_amount)
        /\ WithinEpsilon(ret.result.amount_b, args.token_b_amount)

----------------------------------------------------------------------------
(* Properties of the wallet under the position manager *)

\* the last call closed a position that was active
Closed ==
    /\ lastOp.op \in {"update", "exit"}
    /\ lastOp.pre = "active"
    /\ lastOp.result = "ok"
    /\ positions[lastOp.id].status = "exited"

\* C24: gas is charged once: when the only position ever opened is closed, the
\* wallet balance is the balance before its entry plus its final pnl_amount.
C24_GasChargedOnce ==
    (Closed /\ Len(positions) = 1) =>
        wallet.balance = initial_balance + positions[lastOp.id].pnl_amount

----------------------------------------------------------------------------
(* Properties of the book *)

\* C23: the risk caps hold of the book: at most max_positions ACTIVE
\* positions, each of at most max_position_size, together of at most
\* max_total_exposure.
C23_RiskCapsHold ==
    LET active == get_active_positions(positions)
    IN /\ Cardinality(active) <= max_positions
       /\ \A id \in active : positions[id].entry_amount <= max_position_size
       /\ SumEntry(positions, active) <= max_total_exposure

\* the book is full and a further entry has just been refused
C23_Witness ==
    /\ Cardinality(get_active_positions(positions)) = max_positions
    /\ SumEntry(positions, get_active_positions(positions)) = max_total_exposure
    /\ lastOp.op = "enter"
    /\ lastOp.result = "max_positions"

\* C29: the wallet balance is never negative.
C29_BalanceNeverNegative ==
    wallet.balance >= 0

----------------------------------------------------------------------------
(* Properties of the wallet ledger *)

RECURSIVE SumAmounts(_)
SumAmounts(transactions) ==
    IF transactions = <<>> THEN 0
    ELSE Head(transactions).amount + SumAmounts(Tail(transactions))

\* C28: the balance is the sum of the recorded amounts, every balance_after is
\* the balance that stood after its transaction, and a refused call leaves the
\* wallet as it was.
C28_LedgerConsistent ==
    /\ wallet.balance = SumAmounts(wallet.transactions)
    /\ \A i \in DOMAIN wallet.transactions :
           wallet.transactions[i].balance_after = SumAmounts(SubSeq(wallet.transactions, 1, i))
    /\ lastOp.result = "refused" => wallet = lastOp.pre

\* a fee is refused by a wallet that has recorded an entry and a paid fee
C28_Witness ==
    /\ lastOp.op = "pay_fee" /\ lastOp.result = "refused"
    /\ \E i, j \in DOMAIN wallet.transactions :
           /\ wallet.transactions[i].type = "position_entry"
           /\ wallet.transactions[j].type = "fee"

----------------------------------------------------------------------------
(* Properties of the strategy manager *)

\* C25: the allocations stored never sum to more than 100, and an add_strategy
\* that would take the sum above 100 raises and stores nothing.
C25_AllocationsWithinHundred ==
    /\ [](strategy_manager.built => SumAllocations(strategy_manager.strategies) <= 100)
    /\ [][(lastOp'.op = "add_strategy"
           /\ SumAllocations(strategy_manager.strategies) + lastOp'.id > 100) =>
              /\ lastOp'.result = "ValueError"
              /\ strategy_manager' = strategy_manager]_vars

\* a second strategy is refused because the first holds the whole allocation
C25_Witness ==
    /\ lastOp.op = "add_strategy" /\ lastOp.result = "ValueError"
    /\ lastOp.id = 60
    /\ SumAllocations(strategy_manager.strategies) = 60

\* the tasks of a strategy that are neither finished nor cancelled
LiveTasks(strategy_id) ==
    {t \in DOMAIN strategy_manager.tasks :
        /\ strategy_manager.tasks[t].instance = strategy_id
        /\ strategy_manager.tasks[t].at # "done"
        /\ ~strategy_manager.tasks[t].must_cancel}

\* C27: a strategy has at most one loop that may run trading cycles: a task
\* that was cancelled ends at its next step without another trading cycle, and
\* starting an active strategy creates no task.
C27_OneLoopPerStrategy ==
    /\ [](strategy_manager.built =>
             \A strategy_id \in DOMAIN strategy_manager.strategies :
                 Cardinality(LiveTasks(strategy_id)) <= 1)
    /\ [][/\ (lastOp'.op = "_run_strategy"
              /\ strategy_manager.tasks[lastOp'.id].must_cancel) =>
                 strategy_manager'.tasks[lastOp'.id].at = "done"
          /\ (lastOp'.op = "start_strategy"
              /\ lastOp'.id \in DOMAIN strategy_manager.strategies
              /\ strategy_manager.strategies[lastOp'.id].is_active) =>
                 strategy_manager' = strategy_manager]_vars

\* the strategy was stopped and started again while its first loop, cancelled
\* inside a trading cycle, has not finished; the second loop is in a cycle
C27_Witness ==
    /\ strategy_manager.built
    /\ \E t1, t2 \in DOMAIN strategy_manager.tasks :
           /\ t1 # t2
           /\ strategy_manager.tasks[t1].instance = strategy_manager.tasks[t2].instance
           /\ strategy_manager.tasks[t1].must_cancel
           /\ strategy_manager.tasks[t1].at = "trading_cycle"
           /\ strategy_manager.tasks[t2].at = "trading_cycle"
           /\ ~strategy_manager.tasks[t2].must_cancel

----------------------------------------------------------------------------
(* Properties of the rate limiter *)

\* the admitted calls of a key in the minute ending at time
AdmittedInWindow(key, time) ==
    Cardinality({i \in DOMAIN rate_limiter.admitted[key] :
                    /\ rate_limiter.admitted[key][i] >= time - Minute
                    /\ rate_limiter.admitted[key][i] <= time})

\* C26: in every minute ending at or before the present, a key has at most
\* its limit of admitted calls, and a rejected call leaves in the history only
\* what the clean-up kept.
C26_AdmittedWithinLimit ==
    /\ [](rate_limiter.built =>
             \A key \in Keys : \A time \in 0..now :
                 AdmittedInWindow(key, time) <= rate_limits(key))
    /\ [][(lastOp'.op = "check_rate_limit" /\ lastOp'.result = "False") =>
              /\ rate_limiter'.admitted = rate_limiter.admitted
              /\ rate_limiter'.call_history[lastOp'.id] =
                     clean_old_entries(rate_limiter.call_history[lastOp'.id], now - Minute)
              /\ \A key \in Keys \ {lastOp'.id} :
                     rate_limiter'.call_history[key] = rate_limiter.call_history[key]]_vars

\* a call is rejected at the limit after older calls have left the window and
\* a later call was admitted in their place
C26_Witness ==
    /\ rate_limiter.built
    /\ lastOp.op = "check_rate_limit" /\ lastOp.result = "False"
    /\ Len(rate_limiter.admitted["/api/hunt"]) = 6
    /\ Len(rate_limiter.call_history["/api/hunt"]) = 5

----------------------------------------------------------------------------
(* Properties of the paper wallet *)

RECURSIVE SumLocked(_)
SumLocked(locked) ==
    IF DOMAIN locked = {} THEN 0
    ELSE LET id == CHOOSE k \in DOMAIN locked : TRUE
         IN locked[id] + SumLocked([k \in DOMAIN locked \ {id} |-> locked[k]])

\* C30: locked_balance is the sum of the amounts stored in positions.
C30_LockedMatchesPositions ==
    paper_wallet.built => paper_wallet.locked_balance = SumLocked(paper_wallet.positions)

====
